---------------------------- MODULE Spec2Model ----------------------------
(***************************************************************************)
(* Verification model of the Kubewise resource agent (crate agent-lib).    *)
(*                                                                         *)
(* The agent is a set of loosely coupled subsystems.  Each subsystem is    *)
(* given its own specification over the shared variable tuple `vars`; a    *)
(* specification leaves the variables of the other subsystems unchanged.   *)
(*                                                                         *)
(*   SpecBuffer   sync/buffer.rs   MetricsBuffer and OfflineBufferManager  *)
(*   SpecModel    sync/model_update.rs + predictor/inference.rs            *)
(*   SpecStream   sync/streaming.rs StreamingWorker                        *)
(*   SpecClient   sync/client.rs    SyncClient connection state            *)
(*   SpecAlerter  anomaly/alerter.rs Alerter                               *)
(*   SpecScheduler predictor/scheduler.rs PredictionScheduler              *)
(*   SpecOutput   predictor/output.rs OutputFormatter                      *)
(*   SpecHealth   health.rs + agent/src/api.rs                             *)
(*   SpecCollector collector/loop.rs CollectionLoop                        *)
(*   SpecDiscovery collector/discovery.rs registry, scan and watcher       *)
(*   SpecRolling  anomaly/spike_detector.rs RollingStats                   *)
(*   SpecPersist  sync/buffer.rs    flush and with_persistence             *)
(*   SpecShutdown the run loops of all long-running tasks, with fairness   *)
(*                                                                         *)
(* Time is a discrete clock.  A synchronous method (MetricsBuffer::push,   *)
(* drain, ...) runs to completion within one clock value; an async task    *)
(* (StreamingWorker::run) is split at its await points.                    *)
(***************************************************************************)
EXTENDS Integers, Sequences, FiniteSets, TLC

(***************************************************************************)
(* Bounds of the model.                                                    *)
(***************************************************************************)
MaxTime == 3          \* the wall clock runs over 0..MaxTime
MaxPushes == 3        \* number of ContainerMetrics samples ever created
MaxLoaded == 3        \* load_from_disk restores 0..MaxLoaded entries
MaxCap == 2           \* BufferConfig.max_size ranges over 1..MaxCap
MaxRet == 1           \* BufferConfig.max_retention ranges over 1..MaxRet
MaxLimit == 2         \* `limit` argument of drain_batch / peek: 0..MaxLimit
MaxBatchArg == 2      \* length of the Vec given to push_batch: 1..MaxBatchArg
MaxVersions == 2      \* version strings offered by the server: 1..MaxVersions
MaxKeep == 2          \* ModelUpdateConfig.versions_to_keep ranges over 1..MaxKeep
ModelSizeCap == 2     \* ModelUpdateConfig.max_model_size, in bytes
LastHour == 23        \* the hours of a day are 0..LastHour
MaxPatch == 2         \* cap on the patch number of OnnxPredictor.model_version
MaxClock == 5         \* the monotonic clock runs over 0..MaxClock
MaxQueued == 3        \* number of PendingData messages ever produced
ChannelCap == 2       \* StreamingConfig.channel_buffer_size
MaxBatchSize == 2     \* StreamingConfig.max_batch_size ranges over 2..MaxBatchSize
BatchDelay == 2       \* StreamingConfig.max_batch_delay, in ticks
MaxRetries == 2       \* StreamingConfig.max_retries ranges over 1..MaxRetries
RetryDelay == 1       \* StreamingConfig.retry_delay, in ticks

MaxFailures == 4
MaxInitialBackoff == 2
MaxBackoffCap == 5
MaxTasks == 2         \* tasks that call into one shared object concurrently
MaxCertTime == 2      \* the client certificate is rotated at most MaxCertTime times

MaxInstant == 3
MaxWindow == 2

MaxSchedTime == 3
MaxInterval == 2
MinSamplesScaled == 2
MaxSamples == 2

\* predictor/output.rs, with memory counted in KiB
MIN_CPU_MILLICORES == 10
MAX_CPU_MILLICORES == 16000
MIN_MEMORY_KIB == 65536
MAX_MEMORY_KIB == 67108864

RawGrid == 2

MaxContainers == 2    \* registry.list() holds 0..MaxContainers containers
MaxBufferSize == 2    \* CollectionConfig.buffer_size ranges over 1..MaxBufferSize

\* collector/loop.rs, durations in milliseconds
IntervalMs == 10000           \* CollectionConfig::default().interval
JitterMs == 1000              \* CollectionConfig::default().jitter
DegradedIntervalMs == 60000   \* CollectionConfig::default().degraded_interval
ThresholdMs == 500            \* threshold in check_resource_pressure

IdLen == 2            \* length of a container id (64 in the code, scaled)
MaxRegistered == 1    \* the registry holds at most MaxRegistered containers

MaxStamp == 3         \* add_sample timestamps range over 0..MaxStamp
MaxRollWindow == 2    \* RollingStats.window_secs ranges over 1..MaxRollWindow
MaxRetained == 3      \* add_sample is not called on MaxRetained samples

VARIABLES
    \* ---- sync/buffer.rs ------------------------------------------------
    now,              \* SystemTime::now(), in ticks
    buffer,           \* MetricsBuffer.buffer : VecDeque<TimestampedMetrics>
    max_size,         \* MetricsBuffer.config.max_size
    max_retention,    \* MetricsBuffer.config.max_retention
    dirty,            \* MetricsBuffer.dirty
    offline,          \* OfflineBufferManager.offline
    offline_entries,  \* OfflineBufferManager.offline_entries
    nextId,           \* identity of the next ContainerMetrics sample created
    lastOp,           \* the method that ran last
    lastArg,          \* its `limit` argument (0 when it has none)
    drainedEver,      \* history: some drain removed an entry
    expiredEver,      \* history: evict_expired removed an entry
    phase,            \* history: "fresh" | "offline" | "sync" | "other"
    atOnline,         \* history: buffered samples when go_online ran
    synced,           \* history: batches returned by drain_batch_for_sync
                      \*          since go_online, concatenated
    \* ---- sync/model_update.rs, predictor/inference.rs -------------------
    current_version,    \* ModelUpdateClient.current_version : Option<ModelVersion>
    previous_versions,  \* ModelUpdateClient.previous_versions : Vec<ModelVersion>
    disk,               \* the model directory: path -> file content or NoFile
    versions_to_keep,   \* ModelUpdateConfig.versions_to_keep
    max_model_size,     \* ModelUpdateConfig.max_model_size
    slot_model,         \* OnnxPredictor.model : Option<TractModel> (its weights)
    slot_version,       \* OnnxPredictor.model_version ("fallback" or patch n of v0.1.n)
    mLastOp,            \* the operation that ran last and its outcome
    mLastResp,          \* the ModelResponse it was given (NoResp when none)
    mBefore,            \* history: the version that was current before the most
                        \*   recent successful update, until a rollback is tried
    mEvicted,           \* history: the versions the last operation popped off
                        \*   the end of previous_versions
    predictedBy,        \* the model that produced the last prediction (None: fallback)
    \* ---- sync/streaming.rs ----------------------------------------------
    clock,              \* tokio Instant::now(), in ticks
    channel,            \* mpsc channel of PendingData, producers -> worker
    pending_batch,      \* StreamingWorker.pending_batch (item counts per kind)
    last_batch_time,    \* StreamingWorker.last_batch_time
    sleep_from,         \* when the select!'s sleep(max_batch_delay) was created
    wpc,                \* where the worker is: "select" | "attempt" | "retry_sleep"
    inflight,           \* send_batch: the batch taken out of pending_batch
    retries,            \* send_batch: local variable `retries`
    retry_from,         \* when sleep(retry_delay) was created
    stats,              \* StreamingStats (batches_sent, ..., failures)
    max_batch_size,     \* StreamingConfig.max_batch_size
    max_batch_delay,    \* StreamingConfig.max_batch_delay
    max_retries,        \* StreamingConfig.max_retries
    retry_delay,        \* StreamingConfig.retry_delay
    queued,             \* number of PendingData messages produced so far
    oldest_at,          \* history: when the oldest pending item was added
    attempts,           \* history: send_single_batch calls of the current flush
    flush_total,        \* history: items in the batch at the last flush
    flush_age,          \* history: age of its oldest item at the flush
    sLastOp             \* the step that ran last

bufVars == <<now, buffer, max_size, max_retention, dirty, offline,
             offline_entries, nextId, lastOp, lastArg, drainedEver,
             expiredEver, phase, atOnline, synced>>

modelVars == <<current_version, previous_versions, disk, versions_to_keep,
               max_model_size, slot_model, slot_version, mLastOp, mLastResp,
               mBefore, mEvicted, predictedBy>>

streamVars == <<clock, channel, pending_batch, last_batch_time, sleep_from, wpc,
                inflight, retries, retry_from, stats, max_batch_size,
                max_batch_delay, max_retries, retry_delay, queued, oldest_at,
                attempts, flush_total, flush_age, sLastOp>>

VARIABLES
    \* ---- sync/client.rs ------------------------------------------------
    connected,          \* ConnectionState.connected
    last_error,         \* ConnectionState.last_error : Option<String>
    reconnect_attempts, \* ConnectionState.reconnect_attempts
    current_backoff,    \* ConnectionState.current_backoff, in seconds
    grpc_channel,       \* SyncClient.channel : Option<Channel>
    initial_backoff,    \* ClientConfig.initial_backoff, in seconds
    max_backoff,        \* ClientConfig.max_backoff, in seconds
    tls_state,          \* SyncClient.tls_state : Option<TlsState>
    cert_file,          \* version (contents and mtime) of client_cert_path
    failed_since,       \* history: failures since construction / last connect
    at_call,            \* history: what the last get_channel call started from
    got,                \* history: what the last get_channel call returned
    cLastOp             \* the step that ran last

clientVars == <<connected, last_error, reconnect_attempts, current_backoff,
                grpc_channel, initial_backoff, max_backoff, tls_state,
                cert_file, failed_since, at_call, got, cLastOp>>

VARIABLES
    \* ---- anomaly/alerter.rs --------------------------------------------
    instant,            \* Instant::now(), in ticks
    dedup_window,       \* Alerter.dedup_window, in ticks
    recent_alerts,      \* Alerter.recent_alerts : HashMap<DedupKey, Instant>
    emitted_at,         \* history: last emission of every key, -1 if none
    aBefore,            \* history: emitted_at of the key of the last call
    aLastKey,           \* history: (alert type, context) of the last call
    aLastResult,        \* Option<KubernetesEvent> returned by the last call
    aLastOp             \* the step that ran last

alertVars == <<instant, dedup_window, recent_alerts, emitted_at, aBefore,
               aLastKey, aLastResult, aLastOp>>

VARIABLES
    \* ---- predictor/scheduler.rs ----------------------------------------
    sched_now,           \* Instant::now(), in ticks
    buffers,             \* PredictionScheduler.buffers : HashMap<String, ContainerBuffer>
    prediction_interval, \* PredictionConfig.prediction_interval, in ticks
    min_samples,         \* PredictionConfig.min_samples
    model_loaded,        \* OnnxPredictor.model is Some
    todo,                \* run_predictions: container ids still to visit
    task,                \* predict_container: its position and locals
    sent,                \* the last PredictionResult given to prediction_tx
    predicted_at,        \* history: when a profile was last produced, per id
    dropped,             \* history: removed and no add_metrics since, per id
    removed_since,       \* history: removed since its last profile, per id
    schLastOp            \* the step that ran last

schedVars == <<sched_now, buffers, prediction_interval, min_samples,
               model_loaded, todo, task, sent, predicted_at, dropped,
               removed_since, schLastOp>>

VARIABLES
    \* ---- predictor/output.rs -------------------------------------------
    raw_outputs,        \* the [f32; 5] given to OutputFormatter::format
    profile             \* the ResourceProfile it returns, None before the call

outVars == <<raw_outputs, profile>>

VARIABLES
    \* ---- health.rs, agent/src/api.rs -----------------------------------
    components,         \* HealthRegistry.components : HashMap<String, ComponentHealth>
    ready,              \* HealthRegistry.ready, the startup-complete flag
    response,           \* the last HTTP answer: status code and JSON body
    hLastOp             \* the step that ran last

healthVars == <<components, ready, response, hLastOp>>

VARIABLES
    \* ---- collector/loop.rs and the run loops of the other tasks ---------
    degraded_mode,      \* CollectionLoop.degraded_mode
    ticker,             \* run: the tokio Interval, its period and first tick
    loop_pc,            \* CollectionLoop::run: its suspension point
    containers_left,    \* collect_all: containers of the list still to visit
    metrics_chan,       \* number of samples queued in the metrics channel
    rx_closed,          \* the Receiver of the metrics channel was dropped
    buffer_size,        \* CollectionConfig.buffer_size, the channel capacity
    elapsed,            \* start.elapsed() of the last tick, in ms
    shutdown_sent,      \* the shutdown broadcast was sent
    run_pc,             \* position of the scheduler, streaming and
                        \* model-update run loops
    colLastOp           \* the step that ran last

collVars == <<degraded_mode, ticker, loop_pc, containers_left, metrics_chan,
              rx_closed, buffer_size, elapsed, shutdown_sent, run_pc,
              colLastOp>>

VARIABLES
    \* ---- collector/discovery.rs, collector/cgroup_v2.rs ------------------
    containers,         \* ContainerRegistry.containers : DashMap<String, ContainerInfo>
    event_out,          \* the ContainerEvent the watcher published last, if any
    event_kind,         \* history: EventKind of the last filesystem event
    leaf_id,            \* history: what the leaf of its path parses to
    meta_args,          \* history: the arguments of the last update_metadata
    dLastOp             \* the step that ran last

discVars == <<containers, event_out, event_kind, leaf_id, meta_args, dLastOp>>

VARIABLES
    \* ---- anomaly/spike_detector.rs ---------------------------------------
    samples,            \* RollingStats.samples : VecDeque<(i64, f64)>, the timestamps
    count,              \* RollingStats.count
    window_secs         \* RollingStats.window_secs

rollVars == <<samples, count, window_secs>>

VARIABLES
    \* ---- sync/buffer.rs: persistence ------------------------------------
    buffer_file,               \* the file at persistence_path: None, or its JSON array
    nan_ids,            \* the samples whose cpu_usage_cores is NaN
    restored,           \* the metrics of a buffer built by with_persistence
    afterFlush          \* history: that buffer was built right after a flush

persistVars == <<buffer_file, nan_ids, restored, afterFlush>>

VARIABLES
    \* ---- sync/model_update.rs: the worker's update window ---------------
    hour,                \* chrono::Local::now().hour()
    update_window_start, \* ModelUpdateConfig.update_window_start
    update_window_end,   \* ModelUpdateConfig.update_window_end
    grpc_client          \* ModelUpdateWorker.grpc_client is Some

windowVars == <<hour, update_window_start, update_window_end, grpc_client>>

VARIABLES
    \* ---- sync/client.rs: the locks of one shared SyncClient ---------------
    rwlocks,            \* per RwLock: the task holding it for writing (0: none)
                        \*   and the tasks holding it for reading
    lock_prog,          \* per task: the lock operations its call has still to do
    lock_op             \* per task: the call it is in ("idle": none)

lockVars == <<rwlocks, lock_prog, lock_op>>

VARIABLES
    \* ---- anomaly/alerter.rs: concurrent create_*_event calls --------------
    creating            \* per task: the (alert type, context) of its call
                        \*   between should_suppress and record_alert

raceVars == <<creating>>

VARIABLES
    \* ---- sync/buffer.rs: MetricsBuffer::push step by step -----------------
    push_pc             \* "idle", or "capacity": a push is in its capacity loop

pushVars == <<push_pc>>

\* everything but the variables of one subsystem
midVars == <<clientVars, alertVars, schedVars, outVars, healthVars>>
laterVars == <<lockVars, raceVars, pushVars>>
tailVars == <<windowVars, laterVars>>
lateVars == <<collVars, discVars, rollVars, persistVars, tailVars>>
othersVars == <<midVars, lateVars>>
notBufVars == <<modelVars, streamVars, othersVars>>
notModelVars == <<bufVars, streamVars, othersVars>>
notStreamVars == <<bufVars, modelVars, othersVars>>
coreVars == <<bufVars, modelVars, streamVars>>
notClientVars == <<coreVars, alertVars, schedVars, outVars, healthVars,
                   lateVars>>
notAlertVars == <<coreVars, clientVars, schedVars, outVars, healthVars,
                  lateVars>>
notSchedVars == <<coreVars, clientVars, alertVars, outVars, healthVars,
                  lateVars>>
notOutVars == <<coreVars, clientVars, alertVars, schedVars, healthVars,
                lateVars>>
notHealthVars == <<coreVars, clientVars, alertVars, schedVars, outVars,
                   lateVars>>
notCollVars == <<coreVars, midVars, discVars, rollVars, persistVars, tailVars>>
notDiscVars == <<coreVars, midVars, collVars, rollVars, persistVars, tailVars>>
notRollVars == <<coreVars, midVars, collVars, discVars, persistVars, tailVars>>

notLockVars == <<coreVars, midVars, collVars, discVars, rollVars, persistVars,
                 windowVars, raceVars, pushVars>>
notRaceVars == <<coreVars, clientVars, schedVars, outVars, healthVars,
                 collVars, discVars, rollVars, persistVars, windowVars,
                 lockVars, pushVars>>
notPushVars == <<modelVars, streamVars, midVars, collVars, discVars, rollVars,
                 persistVars, windowVars, lockVars, raceVars>>

vars == <<coreVars, othersVars>>

(***************************************************************************)
(* Helpers on sequences.                                                   *)
(***************************************************************************)
Min(a, b) == IF a <= b THEN a ELSE b

RECURSIVE MetricsOf(_)
\* buffer.iter().map(|tm| tm.metrics)
MetricsOf(buf) ==
    IF buf = <<>> THEN <<>> ELSE <<Head(buf).metrics>> \o MetricsOf(Tail(buf))

\* mutant: evicts the newest entry instead of the oldest (pop_back)
PopFront_PopBack(buf) == IF buf = <<>> THEN buf ELSE SubSeq(buf, 1, Len(buf) - 1)

\* VecDeque::pop_front: removes the front entry; no effect on an empty deque
PopFront(buf) == IF buf = <<>> THEN buf ELSE Tail(buf)

(***************************************************************************)
(* MetricsBuffer                                                           *)
(***************************************************************************)
RECURSIVE EvictCapacity_OffByOne(_, _)
\* mutant: `>` for `>=` in the capacity loop
EvictCapacity_OffByOne(buf, cap) ==
    IF Len(buf) > cap /\ buf # <<>>
    THEN EvictCapacity_OffByOne(PopFront(buf), cap)
    ELSE buf

RECURSIVE EvictCapacity(_, _)
\* push: while self.buffer.len() >= self.config.max_size { pop_front() }
\* (cap >= 1 here; the loop is only unrolled while an entry is left)
EvictCapacity(buf, cap) ==
    IF Len(buf) >= cap /\ buf # <<>>
    THEN EvictCapacity(PopFront(buf), cap)
    ELSE buf

RECURSIVE EvictExpired_LateCutoff(_, _, _)
\* mutant: the cutoff is one tick too early, so an entry one tick past
\* max_retention survives
EvictExpired_LateCutoff(buf, t, ret) ==
    IF buf # <<>> /\ Head(buf).buffered_at < t - ret - 1
    THEN EvictExpired_LateCutoff(PopFront(buf), t, ret)
    ELSE buf

RECURSIVE EvictExpired(_, _, _)
\* evict_expired: cutoff = now - max_retention;
\*                while front.buffered_at < cutoff { pop_front() }
EvictExpired(buf, t, ret) ==
    IF buf # <<>> /\ Head(buf).buffered_at < t - ret
    THEN EvictExpired(PopFront(buf), t, ret)
    ELSE buf

\* MetricsBuffer::push: the buffer after push(m) at clock value t
PushBuf(buf, m, t, cap, ret) ==
    Append(EvictExpired(EvictCapacity(buf, cap), t, ret),
           [metrics |-> m, buffered_at |-> t])

\* did evict_expired remove an entry during push?
PushExpired(buf, t, cap, ret) ==
    LET afterCap == EvictCapacity(buf, cap)
    IN  EvictExpired(afterCap, t, ret) # afterCap

RECURSIVE PushBatchBuf(_, _, _, _, _)
\* MetricsBuffer::push_batch: for m in metrics { self.push(m) }
PushBatchBuf(buf, ms, t, cap, ret) ==
    IF ms = <<>> THEN buf
    ELSE PushBatchBuf(PushBuf(buf, Head(ms), t, cap, ret), Tail(ms), t, cap, ret)

RECURSIVE PushBatchExpired(_, _, _, _, _)
PushBatchExpired(buf, ms, t, cap, ret) ==
    IF ms = <<>> THEN FALSE
    ELSE \/ PushExpired(buf, t, cap, ret)
         \/ PushBatchExpired(PushBuf(buf, Head(ms), t, cap, ret), Tail(ms), t, cap, ret)

\* MetricsBuffer::drain_batch: count = limit.min(len); drain(..count)
DrainCount(buf, limit) == Min(limit, Len(buf))
DrainBatchTaken(buf, limit) == SubSeq(buf, 1, DrainCount(buf, limit))
\* mutant: drain(..=count) for drain(..count): one entry too many is removed
DrainBatchLeft_OneMore(buf, limit) == SubSeq(buf, DrainCount(buf, limit) + 2, Len(buf))

DrainBatchLeft(buf, limit) == SubSeq(buf, DrainCount(buf, limit) + 1, Len(buf))

(***************************************************************************)
(* SpecBuffer: the operations of MetricsBuffer and OfflineBufferManager.   *)
(***************************************************************************)
BufferInit ==
    /\ now = 0
    /\ buffer = <<>>
    /\ max_size \in 1..MaxCap
    /\ max_retention \in 1..MaxRet
    /\ dirty = FALSE
    /\ offline = FALSE
    /\ offline_entries = 0
    /\ nextId = 1
    /\ lastOp = "new"
    /\ lastArg = 0
    /\ drainedEver = FALSE
    /\ expiredEver = FALSE
    /\ phase = "fresh"
    /\ atOnline = <<>>
    /\ synced = <<>>

\* the buffer at rest, in the specifications of the other subsystems
BufferIdle == BufferInit /\ max_size = 1 /\ max_retention = 1

\* the wall clock advances (it never goes back)
Tick ==
    /\ now < MaxTime
    /\ now' = now + 1
    /\ lastOp' = "tick"
    /\ lastArg' = 0
    /\ UNCHANGED <<buffer, max_size, max_retention, dirty, offline,
                   offline_entries, nextId, drainedEver, expiredEver, phase,
                   atOnline, synced>>
    /\ UNCHANGED notBufVars

\* MetricsBuffer::push(metrics)
Push ==
    /\ nextId <= MaxPushes
    /\ buffer' = PushBuf(buffer, nextId, now, max_size, max_retention)
    /\ dirty' = TRUE
    /\ nextId' = nextId + 1
    /\ expiredEver' = (expiredEver \/ PushExpired(buffer, now, max_size, max_retention))
    /\ lastOp' = "push"
    /\ lastArg' = 0
    /\ phase' = "other"
    /\ UNCHANGED <<now, max_size, max_retention, offline, offline_entries,
                   drainedEver, atOnline, synced>>
    /\ UNCHANGED notBufVars

\* MetricsBuffer::push_batch(metrics), metrics a Vec of n fresh samples
PushBatch ==
    \E n \in 1..MaxBatchArg :
        /\ nextId + n - 1 <= MaxPushes
        /\ LET ms == [i \in 1..n |-> nextId + i - 1]
           IN  /\ buffer' = PushBatchBuf(buffer, ms, now, max_size, max_retention)
               /\ expiredEver' = (expiredEver \/
                      PushBatchExpired(buffer, ms, now, max_size, max_retention))
        /\ dirty' = TRUE
        /\ nextId' = nextId + n
        /\ lastOp' = "push_batch"
        /\ lastArg' = n
        /\ phase' = "other"
        /\ UNCHANGED <<now, max_size, max_retention, offline, offline_entries,
                       drainedEver, atOnline, synced>>
        /\ UNCHANGED notBufVars

\* MetricsBuffer::drain()
Drain ==
    /\ buffer' = <<>>
    /\ dirty' = TRUE
    /\ lastOp' = "drain"
    /\ lastArg' = 0
    /\ drainedEver' = (drainedEver \/ buffer # <<>>)
    /\ phase' = "other"
    /\ UNCHANGED <<now, max_size, max_retention, offline, offline_entries,
                   nextId, expiredEver, atOnline, synced>>
    /\ UNCHANGED notBufVars

\* MetricsBuffer::drain_batch(limit)
DrainBatch ==
    \E limit \in 0..MaxLimit :
        /\ buffer' = DrainBatchLeft(buffer, limit)
        /\ dirty' = TRUE
        /\ lastOp' = "drain_batch"
        /\ lastArg' = limit
        /\ drainedEver' = (drainedEver \/ DrainCount(buffer, limit) > 0)
        /\ phase' = "other"
        /\ UNCHANGED <<now, max_size, max_retention, offline, offline_entries,
                       nextId, expiredEver, atOnline, synced>>
        /\ UNCHANGED notBufVars

\* MetricsBuffer::peek(limit): a read-only view of the first entries
Peek ==
    /\ lastOp' = "peek"
    /\ lastArg' = 0
    /\ UNCHANGED <<now, buffer, max_size, max_retention, dirty, offline,
                   offline_entries, nextId, drainedEver, expiredEver,
                   phase, atOnline, synced>>
    /\ UNCHANGED notBufVars

(***************************************************************************)
(* OfflineBufferManager                                                    *)
(***************************************************************************)
\* OfflineBufferManager::go_offline
GoOffline ==
    /\ IF ~offline
       THEN offline' = TRUE /\ offline_entries' = 0
       ELSE UNCHANGED <<offline, offline_entries>>
    /\ lastOp' = "go_offline"
    /\ lastArg' = 0
    /\ phase' = IF ~offline THEN "offline" ELSE phase
    /\ UNCHANGED <<now, buffer, max_size, max_retention, dirty, nextId,
                   drainedEver, expiredEver, atOnline, synced>>
    /\ UNCHANGED notBufVars

\* OfflineBufferManager::go_online
GoOnline ==
    /\ offline' = FALSE
    /\ lastOp' = "go_online"
    /\ lastArg' = 0
    /\ IF offline /\ phase = "offline"
       THEN phase' = "sync" /\ atOnline' = MetricsOf(buffer) /\ synced' = <<>>
       ELSE UNCHANGED <<phase, atOnline, synced>>
    /\ UNCHANGED <<now, buffer, max_size, max_retention, dirty,
                   offline_entries, nextId, drainedEver, expiredEver>>
    /\ UNCHANGED notBufVars

\* OfflineBufferManager::buffer_if_offline(metrics)
BufferIfOffline ==
    /\ nextId <= MaxPushes
    /\ IF offline
       THEN /\ buffer' = PushBuf(buffer, nextId, now, max_size, max_retention)
            /\ expiredEver' = (expiredEver \/
                   PushExpired(buffer, now, max_size, max_retention))
            /\ dirty' = TRUE
            /\ offline_entries' = offline_entries + 1
            /\ phase' = IF phase = "offline" THEN "offline" ELSE "other"
            /\ nextId' = nextId + 1
       ELSE \* returns false; the sample is dropped by the caller
            UNCHANGED <<buffer, expiredEver, dirty, offline_entries, phase, nextId>>
    /\ lastOp' = IF offline THEN "buffer_if_offline" ELSE "buffer_if_offline_false"
    /\ lastArg' = 0
    /\ UNCHANGED <<now, max_size, max_retention, offline, drainedEver,
                   atOnline, synced>>
    /\ UNCHANGED notBufVars

\* OfflineBufferManager::buffer(metrics)
BufferUnconditional ==
    /\ nextId <= MaxPushes
    /\ buffer' = PushBuf(buffer, nextId, now, max_size, max_retention)
    /\ expiredEver' = (expiredEver \/ PushExpired(buffer, now, max_size, max_retention))
    /\ dirty' = TRUE
    /\ offline_entries' = IF offline THEN offline_entries + 1 ELSE offline_entries
    /\ phase' = IF phase = "offline" THEN "offline" ELSE "other"
    /\ nextId' = nextId + 1
    /\ lastOp' = "buffer"
    /\ lastArg' = 0
    /\ UNCHANGED <<now, max_size, max_retention, offline, drainedEver,
                   atOnline, synced>>
    /\ UNCHANGED notBufVars

\* OfflineBufferManager::drain_for_sync
DrainForSync ==
    /\ buffer' = <<>>
    /\ dirty' = TRUE
    /\ lastOp' = "drain_for_sync"
    /\ lastArg' = 0
    /\ drainedEver' = (drainedEver \/ buffer # <<>>)
    /\ phase' = "other"
    /\ UNCHANGED <<now, max_size, max_retention, offline, offline_entries,
                   nextId, expiredEver, atOnline, synced>>
    /\ UNCHANGED notBufVars

\* OfflineBufferManager::drain_batch_for_sync(limit)
DrainBatchForSync ==
    \E limit \in 0..MaxLimit :
        /\ buffer' = DrainBatchLeft(buffer, limit)
        /\ dirty' = TRUE
        /\ lastOp' = "drain_batch_for_sync"
        /\ lastArg' = limit
        /\ drainedEver' = (drainedEver \/ DrainCount(buffer, limit) > 0)
        /\ synced' = IF phase = "sync"
                     THEN synced \o MetricsOf(DrainBatchTaken(buffer, limit))
                     ELSE synced
        /\ UNCHANGED <<now, max_size, max_retention, offline, offline_entries,
                       nextId, expiredEver, phase, atOnline>>
        /\ UNCHANGED notBufVars

BufferNext ==
    \/ Tick
    \/ Push
    \/ PushBatch
    \/ Drain
    \/ DrainBatch
    \/ Peek
    \/ GoOffline
    \/ GoOnline
    \/ BufferIfOffline
    \/ BufferUnconditional
    \/ DrainForSync
    \/ DrainBatchForSync

(***************************************************************************)
(* Model updater (sync/model_update.rs) and the predictor's model slot     *)
(* (predictor/inference.rs).                                               *)
(* An Option<T> is a sequence of length at most one.                       *)
(***************************************************************************)
None == <<>>
Some(x) == <<x>>
Unwrap(o) == o[1]

Versions == 1..MaxVersions

\* byte strings: two well-formed models, and one that is larger than
\* max_model_size and is not a parseable ONNX file
Weights == { <<1>>, <<2>>, [i \in 1..(ModelSizeCap + 1) |-> 0] }

RECURSIVE SumSeq(_)
SumSeq(b) == IF b = <<>> THEN 0 ELSE Head(b) + SumSeq(Tail(b))

\* compute_checksum: SHA-256 of the bytes, hex encoded (collision free on Weights)
compute_checksum(b) == 100 * Len(b) + SumSeq(b)

\* checksums the server may declare: for every byte string the right one
\* and at least one wrong one
Checksums == { compute_checksum(<<1>>), compute_checksum(<<2>>) }

\* ModelResponse { new_version, model_weights, checksum }
Responses == [new_version : Versions, model_weights : Weights, checksum : Checksums]

\* self.config.model_dir.join(format!("model_{}.onnx", version))
ModelPath(v) == <<"model_", v, ".onnx">>

Paths == { ModelPath(v) : v \in Versions }

\* Path::exists
Exists(d, path) == d[path] # None

\* apply_update, size validation: model_weights.len() > max_model_size is rejected
SizeOk(resp) == Len(resp.model_weights) <= max_model_size

\* mutant: the checksum comparison is skipped
ChecksumOk_Skipped(resp) == TRUE

\* apply_update, checksum validation: computed_checksum != response.checksum is rejected
ChecksumOk(resp) == compute_checksum(resp.model_weights) = resp.checksum

\* save_model: write <path>.tmp, fsync, rename to path
SaveModel(d, path, weights) == [d EXCEPT ![path] = Some(weights)]

\* fs::remove_file(path); an error (no such file) is only logged
RemoveFile(d, path) == [d EXCEPT ![path] = None]

\* the ModelVersion built by apply_update
NewVersion(resp) ==
    [version |-> resp.new_version,
     path |-> ModelPath(resp.new_version),
     checksum |-> compute_checksum(resp.model_weights)]

\* the demoted version pushed at the end of the Vec instead of index 0
DemotedLast(prev, cur) == prev \o cur

\* apply_update: if let Some(old) = current.take() { previous.insert(0, old) }
Demoted(prev, cur) == cur \o prev

\* apply_update: while previous.len() > versions_to_keep { previous.pop() }
KeptVersions(prev, keep) == SubSeq(prev, 1, Min(Len(prev), keep))

RECURSIVE RemoveFiles(_, _)
\* apply_update: fs::remove_file(&removed.path) for every popped version,
\* the last of the Vec first
RemoveFiles(d, removed) ==
    IF removed = <<>> THEN d
    ELSE RemoveFiles(RemoveFile(d, removed[Len(removed)].path),
                     SubSeq(removed, 1, Len(removed) - 1))

\* the window bounds the configurations are drawn from
WindowHours == {2, 4, 22}

\* is_update_window with the windows compared by <= at the end
IsUpdateWindowClosedEnd(h) ==
    IF update_window_start <= update_window_end
    THEN h >= update_window_start /\ h <= update_window_end
    ELSE h >= update_window_start \/ h <= update_window_end

\* ModelUpdateClient::is_update_window at local hour h
IsUpdateWindow(h) ==
    IF update_window_start <= update_window_end
    THEN h >= update_window_start /\ h < update_window_end
    ELSE h >= update_window_start \/ h < update_window_end

\* ModelUpdateConfig's window and the worker's gRPC client
WindowInit(hours, starts, ends, clients) ==
    /\ hour \in hours
    /\ update_window_start \in starts
    /\ update_window_end \in ends
    /\ grpc_client \in clients

ModelInit ==
    /\ current_version = None
    /\ previous_versions = <<>>
    /\ disk = [p \in Paths |-> None]
    /\ versions_to_keep \in 1..MaxKeep
    /\ max_model_size = ModelSizeCap
    /\ \/ slot_model = None /\ slot_version = None          \* new_without_model
       \/ slot_model = Some(<<1>>) /\ slot_version = Some(0) \* new(model_bytes)
    /\ mLastOp = "new"
    /\ mLastResp = None
    /\ mBefore = None
    /\ mEvicted = <<>>
    /\ predictedBy = None

\* the model updater at rest, in the specifications of the other subsystems
ModelIdle == ModelInit /\ versions_to_keep = 1 /\ slot_model = None

\* ModelUpdateWorker::run -> check_for_update: the server has no update
NoUpdate ==
    /\ IsUpdateWindow(hour)
    /\ grpc_client
    /\ mLastOp' = "no_update"
    /\ mLastResp' = None
    /\ UNCHANGED <<current_version, previous_versions, disk, versions_to_keep,
                   max_model_size, slot_model, slot_version, mBefore, predictedBy>>
    /\ mEvicted' = <<>>
    /\ UNCHANGED notModelVars

\* ModelUpdateWorker::run -> check_for_update -> apply_update(response);
\* on Ok the worker only logs "Model updated successfully"
ApplyUpdate ==
    \E resp \in Responses :
        /\ IsUpdateWindow(hour)
        /\ grpc_client
        /\ mLastResp' = Some(resp)
        /\ IF ~SizeOk(resp)
           THEN /\ mLastOp' = "apply_err_size"
                /\ UNCHANGED <<current_version, previous_versions, disk, mBefore>>
                /\ mEvicted' = <<>>
           ELSE IF ~ChecksumOk(resp)
           THEN /\ mLastOp' = "apply_err_checksum"
                /\ UNCHANGED <<current_version, previous_versions, disk, mBefore>>
                /\ mEvicted' = <<>>
           ELSE LET new == NewVersion(resp)
                    saved == SaveModel(disk, new.path, resp.model_weights)
                    all == Demoted(previous_versions, current_version)
                    kept == KeptVersions(all, versions_to_keep)
                    removed == SubSeq(all, Len(kept) + 1, Len(all))
                IN  /\ mLastOp' = "apply_ok"
                    /\ current_version' = Some(new)
                    /\ previous_versions' = kept
                    /\ disk' = RemoveFiles(saved, removed)
                    /\ mBefore' = current_version
                    /\ mEvicted' = removed
        /\ UNCHANGED <<versions_to_keep, max_model_size, slot_model, slot_version,
                       predictedBy>>
        /\ UNCHANGED notModelVars

\* ModelUpdateWorker::run: a wake-up outside the update window goes back to
\* sleep (continue)
WakeOutsideWindow ==
    /\ ~IsUpdateWindow(hour)
    /\ mLastOp' = "not_in_window"
    /\ mLastResp' = None
    /\ mEvicted' = <<>>
    /\ UNCHANGED <<current_version, previous_versions, disk, versions_to_keep,
                   max_model_size, slot_model, slot_version, mBefore, predictedBy>>
    /\ UNCHANGED notModelVars

\* ModelUpdateWorker::run: a wake-up in the window with no gRPC client set
\* only warns
WakeNoClient ==
    /\ IsUpdateWindow(hour)
    /\ ~grpc_client
    /\ mLastOp' = "no_grpc_client"
    /\ mLastResp' = None
    /\ mEvicted' = <<>>
    /\ UNCHANGED <<current_version, previous_versions, disk, versions_to_keep,
                   max_model_size, slot_model, slot_version, mBefore, predictedBy>>
    /\ UNCHANGED notModelVars

\* ModelUpdateWorker::run: sleep(poll_interval), during which the local wall
\* clock reaches the next hour
HourPasses ==
    /\ hour' = (hour + 1) % (LastHour + 1)
    /\ mLastOp' = "sleep"
    /\ mLastResp' = None
    /\ mEvicted' = <<>>
    /\ UNCHANGED <<current_version, previous_versions, disk, versions_to_keep,
                   max_model_size, slot_model, slot_version, mBefore, predictedBy>>
    /\ UNCHANGED <<update_window_start, update_window_end, grpc_client>>
    /\ UNCHANGED <<bufVars, streamVars, midVars, collVars, discVars, rollVars,
                   persistVars, laterVars>>

\* ModelUpdateClient::rollback
Rollback ==
    /\ mLastResp' = None
    /\ mBefore' = None
    /\ mEvicted' = <<>>
    /\ IF previous_versions = <<>>
       THEN /\ mLastOp' = "rollback_none"
            /\ UNCHANGED <<current_version, previous_versions, disk>>
       ELSE LET rollback_version == Head(previous_versions)
            IN  /\ previous_versions' = Tail(previous_versions)
                /\ IF ~Exists(disk, rollback_version.path)
                   THEN /\ mLastOp' = "rollback_err"
                        /\ UNCHANGED <<current_version, disk>>
                   ELSE /\ mLastOp' = "rollback_ok"
                        /\ disk' = IF current_version = None
                                   THEN disk
                                   ELSE RemoveFile(disk, Unwrap(current_version).path)
                        /\ current_version' = Some(rollback_version)
    /\ UNCHANGED <<versions_to_keep, max_model_size, slot_model, slot_version,
                   predictedBy>>
    /\ UNCHANGED notModelVars

\* load_model: does tract parse and optimize the bytes?
\* (here: a valid ONNX file starts with a non-zero byte)
LoadModelOk(weights) == Head(weights) # 0

\* update_model: version.split('.').get(2).parse::<u32>() succeeds for
\* "v0.1.<n>" and yields "v0.1.<n+1>"; "fallback" does not parse and stays
BumpVersion(v) == IF v = None THEN None ELSE Some(Min(Unwrap(v) + 1, MaxPatch))

\* update_model taking the old model out of the slot before load_model runs
PredictorUpdateModel_TakesFirst ==
    \E w \in Weights :
        /\ mLastResp' = None
        /\ IF LoadModelOk(w)
           THEN /\ mLastOp' = "update_model_ok"
                /\ slot_model' = Some(w)
                /\ slot_version' = BumpVersion(slot_version)
           ELSE /\ mLastOp' = "update_model_err"
                /\ slot_model' = None
                /\ UNCHANGED slot_version
        /\ UNCHANGED <<current_version, previous_versions, disk, versions_to_keep,
                       max_model_size, mBefore, predictedBy>>
        /\ mEvicted' = <<>>
        /\ UNCHANGED notModelVars

\* OnnxPredictor::update_model(weights)
PredictorUpdateModel ==
    \E w \in Weights :
        /\ mLastResp' = None
        /\ IF LoadModelOk(w)
           THEN /\ mLastOp' = "update_model_ok"
                /\ slot_model' = Some(w)
                /\ slot_version' = BumpVersion(slot_version)
           ELSE /\ mLastOp' = "update_model_err"
                /\ UNCHANGED <<slot_model, slot_version>>
        /\ UNCHANGED <<current_version, previous_versions, disk, versions_to_keep,
                       max_model_size, mBefore, predictedBy>>
        /\ mEvicted' = <<>>
        /\ UNCHANGED notModelVars

\* OnnxPredictor::predict: inference with the model in the slot, or
\* FallbackPredictor when the slot is empty
Predict ==
    /\ mLastOp' = "predict"
    /\ mLastResp' = None
    /\ predictedBy' = slot_model
    /\ UNCHANGED <<current_version, previous_versions, disk, versions_to_keep,
                   max_model_size, slot_model, slot_version, mBefore>>
    /\ mEvicted' = <<>>
    /\ UNCHANGED notModelVars

ModelNext ==
    \/ NoUpdate
    \/ ApplyUpdate
    \/ Rollback
    \/ PredictorUpdateModel
    \/ Predict

(***************************************************************************)
(* Streamer / batcher (sync/streaming.rs).                                 *)
(* The worker is modelled between its await points.  It reacts at once:    *)
(* the clock does not advance while a message is waiting in the channel or *)
(* a timer the worker sleeps on is due.                                    *)
(***************************************************************************)
Kinds == {"metrics", "predictions", "anomalies"}

\* PendingData::default()
EmptyData == [k \in Kinds |-> 0]

\* a PendingData carrying n items of one kind (queue_metrics, queue_predictions,
\* queue_anomalies)
DataOf(kind, n) == [k \in Kinds |-> IF k = kind THEN n ELSE 0]

\* add_to_batch: extend the three sub-queues
AddToBatch(batch, data) == [k \in Kinds |-> batch[k] + data[k]]

\* should_send_batch: metrics.len() + predictions.len() + anomalies.len()
TotalItems(batch) == batch["metrics"] + batch["predictions"] + batch["anomalies"]

\* should_send_batch
ShouldSendBatch(batch, t) ==
    \/ TotalItems(batch) >= max_batch_size
    \/ t - last_batch_time >= max_batch_delay

\* is_batch_empty
IsBatchEmpty(batch) ==
    batch["metrics"] = 0 /\ batch["predictions"] = 0 /\ batch["anomalies"] = 0

\* mutant: `>` for `>=`: one attempt too many
GiveUp_OffByOne(r) == r > max_retries

\* send_batch: if retries >= self.config.max_retries { ...; break }
GiveUp(r) == r >= max_retries

\* StreamingStats::default()
NoStats == [batches_sent |-> 0, metrics_sent |-> 0, predictions_sent |-> 0,
            anomalies_sent |-> 0, failures |-> 0]

StreamInit ==
    /\ clock = 0
    /\ channel = <<>>
    /\ pending_batch = EmptyData
    /\ last_batch_time = 0
    /\ sleep_from = 0
    /\ wpc = "select"
    /\ inflight = EmptyData
    /\ retries = 0
    /\ retry_from = 0
    /\ stats = NoStats
    /\ max_batch_size \in 2..MaxBatchSize
    /\ max_batch_delay = BatchDelay
    /\ max_retries \in 1..MaxRetries
    /\ retry_delay = RetryDelay
    /\ queued = 0
    /\ oldest_at = 0
    /\ attempts = 0
    /\ flush_total = 0
    /\ flush_age = 0
    /\ sLastOp = "new"

\* the streaming worker at rest, in the specifications of the other subsystems
StreamIdle == StreamInit /\ max_batch_size = 2 /\ max_retries = 1

\* the worker has something to do right now
WorkerReady ==
    \/ wpc = "select" /\ channel # <<>>
    \/ wpc = "select" /\ clock - sleep_from >= max_batch_delay
    \/ wpc = "retry_sleep" /\ clock - retry_from >= retry_delay

\* time passes
Elapse ==
    /\ clock < MaxClock
    /\ ~WorkerReady
    /\ clock' = clock + 1
    /\ sLastOp' = "elapse"
    /\ UNCHANGED <<channel, pending_batch, last_batch_time, sleep_from, wpc,
                   inflight, retries, retry_from, stats, max_batch_size,
                   max_batch_delay, max_retries, retry_delay, queued, oldest_at,
                   attempts, flush_total, flush_age>>
    /\ UNCHANGED notStreamVars

\* MetricsStreamer::queue_metrics / queue_predictions / queue_anomalies /
\* try_queue: one message enters the bounded channel
Queue ==
    \E kind \in Kinds :
        /\ queued < MaxQueued
        /\ Len(channel) < ChannelCap
        /\ channel' = Append(channel, DataOf(kind, 1))
        /\ queued' = queued + 1
        /\ sLastOp' = "queue"
        /\ UNCHANGED <<clock, pending_batch, last_batch_time, sleep_from, wpc,
                       inflight, retries, retry_from, stats, max_batch_size,
                       max_batch_delay, max_retries, retry_delay, oldest_at,
                       attempts, flush_total, flush_age>>
        /\ UNCHANGED notStreamVars

\* send_batch, up to the first send_single_batch().await:
\* mem::take(&mut pending_batch); last_batch_time = now; retries = 0
StartSend(batch, oldest) ==
    /\ inflight' = batch
    /\ pending_batch' = EmptyData
    /\ last_batch_time' = clock
    /\ retries' = 0
    /\ wpc' = "attempt"
    /\ attempts' = 0
    /\ flush_total' = TotalItems(batch)
    /\ flush_age' = clock - oldest
    /\ UNCHANGED <<sleep_from, oldest_at>>

\* run, select! branch `Some(data) = self.receiver.recv()`
Recv ==
    /\ wpc = "select"
    /\ channel # <<>>
    /\ channel' = Tail(channel)
    /\ LET batch == AddToBatch(pending_batch, Head(channel))
           oldest == IF IsBatchEmpty(pending_batch) THEN clock ELSE oldest_at
       IN  IF ShouldSendBatch(batch, clock)
           THEN /\ StartSend(batch, oldest)
                /\ sLastOp' = "recv_flush"
           ELSE /\ pending_batch' = batch
                /\ oldest_at' = oldest
                /\ sleep_from' = clock
                /\ sLastOp' = "recv"
                /\ UNCHANGED <<last_batch_time, wpc, inflight, retries, attempts,
                               flush_total, flush_age>>
    /\ UNCHANGED <<clock, retry_from, stats, max_batch_size, max_batch_delay,
                   max_retries, retry_delay, queued>>
    /\ UNCHANGED notStreamVars

\* run, select! branch `_ = tokio::time::sleep(self.config.max_batch_delay)`
Timeout ==
    /\ wpc = "select"
    /\ clock - sleep_from >= max_batch_delay
    /\ IF ~IsBatchEmpty(pending_batch)
       THEN /\ StartSend(pending_batch, oldest_at)
            /\ sLastOp' = "timeout_flush"
       ELSE /\ sleep_from' = clock
            /\ sLastOp' = "timeout"
            /\ UNCHANGED <<pending_batch, last_batch_time, wpc, inflight, retries,
                           oldest_at, attempts, flush_total, flush_age>>
    /\ UNCHANGED <<clock, channel, retry_from, stats, max_batch_size,
                   max_batch_delay, max_retries, retry_delay, queued>>
    /\ UNCHANGED notStreamVars

\* send_batch: send_single_batch returned Ok(response)
SendOk ==
    /\ wpc = "attempt"
    /\ attempts' = attempts + 1
    /\ stats' = [stats EXCEPT !.batches_sent = @ + 1,
                              !.metrics_sent = @ + inflight["metrics"],
                              !.predictions_sent = @ + inflight["predictions"],
                              !.anomalies_sent = @ + inflight["anomalies"]]
    /\ inflight' = EmptyData
    /\ wpc' = "select"
    /\ sleep_from' = clock
    /\ sLastOp' = "send_ok"
    /\ UNCHANGED <<clock, channel, pending_batch, last_batch_time, retries,
                   retry_from, max_batch_size, max_batch_delay, max_retries,
                   retry_delay, queued, oldest_at, flush_total, flush_age>>
    /\ UNCHANGED notStreamVars

\* send_batch: send_single_batch returned Err(e)
SendFail ==
    /\ wpc = "attempt"
    /\ attempts' = attempts + 1
    /\ retries' = retries + 1
    /\ IF GiveUp(retries + 1)
       THEN /\ stats' = [stats EXCEPT !.failures = @ + 1]
            /\ inflight' = EmptyData
            /\ wpc' = "select"
            /\ sleep_from' = clock
            /\ sLastOp' = "send_failed"
            /\ UNCHANGED retry_from
       ELSE /\ wpc' = "retry_sleep"
            /\ retry_from' = clock
            /\ sLastOp' = "send_retry"
            /\ UNCHANGED <<stats, inflight, sleep_from>>
    /\ UNCHANGED <<clock, channel, pending_batch, last_batch_time,
                   max_batch_size, max_batch_delay, max_retries, retry_delay,
                   queued, oldest_at, flush_total, flush_age>>
    /\ UNCHANGED notStreamVars

\* send_batch: tokio::time::sleep(self.config.retry_delay) is over
RetryWake ==
    /\ wpc = "retry_sleep"
    /\ clock - retry_from >= retry_delay
    /\ wpc' = "attempt"
    /\ sLastOp' = "retry_wake"
    /\ UNCHANGED <<clock, channel, pending_batch, last_batch_time, sleep_from,
                   inflight, retries, retry_from, stats, max_batch_size,
                   max_batch_delay, max_retries, retry_delay, queued, oldest_at,
                   attempts, flush_total, flush_age>>
    /\ UNCHANGED notStreamVars

StreamNext ==
    \/ Elapse
    \/ Queue
    \/ Recv
    \/ Timeout
    \/ SendOk
    \/ SendFail
    \/ RetryWake

(***************************************************************************)
(* sync/client.rs: SyncClient connection state and reconnect backoff.      *)
(***************************************************************************)
\* SyncClient::new with ConnectionState::default(): the backoff starts at
\* Duration::from_secs(1), whatever the configuration says
ClientInit(initials, maxima) ==
    /\ initial_backoff \in initials
    /\ max_backoff \in maxima
    /\ connected = FALSE
    /\ last_error = None
    /\ reconnect_attempts = 0
    /\ current_backoff = 1
    /\ grpc_channel = None
    /\ tls_state = None
    /\ cert_file = 0
    /\ at_call = [channel |-> None, tls_state |-> None, file |-> 0,
                  readable |-> FALSE]
    /\ got = [via |-> "none", channel |-> None]
    /\ failed_since = 0
    /\ cLastOp = "new"

\* check_cert_rotation comparing with >= instead of >
CheckCertRotationNotOlder(modified, state) ==
    IF state # None THEN modified >= Unwrap(state).cert_modified_time ELSE TRUE

\* check_cert_rotation with a readable certificate file: no TLS state yet, or
\* the file's modification time is later than the recorded one
CheckCertRotation(modified, state) ==
    IF state # None THEN modified > Unwrap(state).cert_modified_time ELSE TRUE

\* get_channel from channel slot chan.  meta_ok: the certificate's metadata
\* can be read; tls_ok: load_tls_config succeeds; race: rotations of the file
\* between load_tls_config and the metadata read that follows it;
\* connect_ok: connect() succeeds.  The TLS config is named by the version
\* of the certificate file it was loaded from.
GetChannel(chan, meta_ok, tls_ok, race, connect_ok) ==
    LET rotated == meta_ok /\ CheckCertRotation(cert_file, tls_state)
        refreshed == rotated /\ tls_ok
        tls1 == IF refreshed
                THEN Some([config |-> cert_file,
                           cert_modified_time |-> cert_file + race])
                ELSE tls_state
        chan1 == IF refreshed THEN None ELSE chan
        file1 == IF refreshed THEN cert_file + race ELSE cert_file
    IN  IF rotated /\ ~tls_ok
        THEN [via |-> "failed", channel |-> None, slot |-> chan,
              tls_state |-> tls_state, file |-> cert_file]
        ELSE IF chan1 # None
        THEN [via |-> "reused", channel |-> chan1, slot |-> chan1,
              tls_state |-> tls1, file |-> file1]
        ELSE IF ~meta_ok \/ tls1 = None \/ ~connect_ok
        THEN [via |-> "failed", channel |-> None, slot |-> None,
              tls_state |-> tls1, file |-> file1]
        ELSE [via |-> "created",
              channel |-> Some([tls |-> Unwrap(tls1).config]),
              slot |-> Some([tls |-> Unwrap(tls1).config]),
              tls_state |-> tls1, file |-> file1]

\* the part of a get_channel call that every caller shares
GetChannelStep(r, meta_ok, tls_ok) ==
    /\ r.file <= MaxCertTime
    /\ tls_state' = r.tls_state
    /\ cert_file' = r.file
    /\ at_call' = [channel |-> grpc_channel, tls_state |-> tls_state,
                   file |-> cert_file, readable |-> meta_ok /\ tls_ok]
    /\ got' = [via |-> r.via, channel |-> r.channel]

\* get_channel after a successful create_channel: store the channel and
\* reset the connection state
Connected(ch) ==
    /\ grpc_channel' = ch
    /\ connected' = TRUE
    /\ reconnect_attempts' = 0
    /\ current_backoff' = initial_backoff
    /\ last_error' = None

\* handle_connection_failure, from n attempts, backoff b and k failures so far
ConnectionFailure(n, b, k) ==
    /\ n < MaxFailures
    /\ connected' = FALSE
    /\ last_error' = Some("error")
    /\ reconnect_attempts' = n + 1
    /\ current_backoff' = Min(b * 2, max_backoff)
    /\ grpc_channel' = None
    /\ failed_since' = k + 1

\* register / get_model_update: get_channel, then the call itself; either
\* failure goes through handle_connection_failure
Call ==
    /\ \E meta_ok \in BOOLEAN, tls_ok \in BOOLEAN, race \in 0..1,
          connect_ok \in BOOLEAN, rpc_ok \in BOOLEAN :
          LET r == GetChannel(grpc_channel, meta_ok, tls_ok, race, connect_ok)
          IN  /\ GetChannelStep(r, meta_ok, tls_ok)
              /\ CASE r.via = "reused" /\ rpc_ok ->
                        /\ cLastOp' = "call_ok"
                        /\ UNCHANGED <<connected, last_error,
                                       reconnect_attempts, current_backoff,
                                       grpc_channel, failed_since>>
                   [] r.via = "reused" /\ ~rpc_ok ->
                        /\ cLastOp' = "call_failed"
                        /\ ConnectionFailure(reconnect_attempts,
                                             current_backoff, failed_since)
                   [] r.via = "failed" ->
                        /\ cLastOp' = "connect_failed"
                        /\ ConnectionFailure(reconnect_attempts,
                                             current_backoff, failed_since)
                   [] r.via = "created" /\ rpc_ok ->
                        /\ cLastOp' = "connected_call_ok"
                        /\ Connected(r.channel)
                        /\ failed_since' = 0
                   [] r.via = "created" /\ ~rpc_ok ->
                        /\ cLastOp' = "connected_call_failed"
                        /\ ConnectionFailure(0, initial_backoff, 0)
    /\ UNCHANGED <<initial_backoff, max_backoff>>
    /\ UNCHANGED notClientVars

\* get_streaming_client: get_channel()? with no failure handling
GetStreamingClient ==
    /\ \E meta_ok \in BOOLEAN, tls_ok \in BOOLEAN, race \in 0..1,
          connect_ok \in BOOLEAN :
          LET r == GetChannel(grpc_channel, meta_ok, tls_ok, race, connect_ok)
          IN  /\ GetChannelStep(r, meta_ok, tls_ok)
              /\ IF r.via = "created"
                 THEN /\ cLastOp' = "streaming_connected"
                      /\ Connected(r.channel)
                      /\ failed_since' = 0
                 ELSE /\ cLastOp' = "streaming"
                      /\ grpc_channel' = r.slot
                      /\ UNCHANGED <<connected, last_error,
                                     reconnect_attempts, current_backoff,
                                     failed_since>>
    /\ UNCHANGED <<initial_backoff, max_backoff>>
    /\ UNCHANGED notClientVars

\* force_reconnect: drop the channel, reset the backoff, get_channel()?
ForceReconnect ==
    /\ \E meta_ok \in BOOLEAN, tls_ok \in BOOLEAN, race \in 0..1,
          connect_ok \in BOOLEAN :
          LET r == GetChannel(None, meta_ok, tls_ok, race, connect_ok)
          IN  /\ r.file <= MaxCertTime
              /\ tls_state' = r.tls_state
              /\ cert_file' = r.file
              /\ UNCHANGED <<at_call, got>>
              /\ IF r.via = "created"
                 THEN /\ cLastOp' = "force_reconnected"
                      /\ Connected(r.channel)
                      /\ failed_since' = 0
                 ELSE /\ cLastOp' = "force_reconnect_failed"
                      /\ grpc_channel' = None
                      /\ connected' = FALSE
                      /\ current_backoff' = initial_backoff
                      /\ UNCHANGED <<last_error, reconnect_attempts,
                                     failed_since>>
    /\ UNCHANGED <<initial_backoff, max_backoff>>
    /\ UNCHANGED notClientVars

\* disconnect
Disconnect ==
    /\ grpc_channel' = None
    /\ connected' = FALSE
    /\ cLastOp' = "disconnect"
    /\ UNCHANGED <<last_error, reconnect_attempts, current_backoff,
                   initial_backoff, max_backoff, failed_since, tls_state,
                   cert_file, at_call, got>>
    /\ UNCHANGED notClientVars

\* the environment replaces the client certificate (config.client_cert_path):
\* new contents and a later modification time
RotateCert ==
    /\ cert_file < MaxCertTime
    /\ cert_file' = cert_file + 1
    /\ cLastOp' = "rotate_cert"
    /\ UNCHANGED <<connected, last_error, reconnect_attempts, current_backoff,
                   grpc_channel, initial_backoff, max_backoff, failed_since,
                   tls_state, at_call, got>>
    /\ UNCHANGED notClientVars

(***************************************************************************)
(* anomaly/alerter.rs: alert events and their deduplication.               *)
(***************************************************************************)
\* enum AlertType, the variants that have a create_*_event
AlertTypes == {"MemoryLeak", "CpuSpike"}

\* the AlertContext values of the calls
Contexts == [namespace : {"default"}, pod_name : {"pod-a", "pod-b"}]

\* mutant: the key leaves out the alert type
DedupKey_NoType(alert_type, ctx) == <<"any", ctx.namespace, ctx.pod_name>>

\* DedupKey { alert_type, namespace, pod_name }
DedupKey(alert_type, ctx) == <<alert_type, ctx.namespace, ctx.pod_name>>

\* should_suppress: the key is in the map and its time is younger than the
\* window
ShouldSuppress(alerts, key, t) ==
    key \in DOMAIN alerts /\ t - alerts[key] < dedup_window

\* alerts.retain(|_, time| time.elapsed() < self.dedup_window)
Retain(alerts, t) ==
    [k \in {x \in DOMAIN alerts : t - alerts[x] < dedup_window} |-> alerts[k]]

\* record_alert: insert(key, Instant::now()), then retain
RecordAlert(alerts, key, t) ==
    Retain([k \in DOMAIN alerts \cup {key} |->
               IF k = key THEN t ELSE alerts[k]], t)

\* Alerter::new(..).with_dedup_window(w)
AlerterInit(windows) ==
    /\ instant = 0
    /\ dedup_window \in windows
    /\ recent_alerts = <<>>
    /\ emitted_at = [k \in AlertTypes \X Contexts |-> -1]
    /\ aBefore = -1
    /\ aLastKey = None
    /\ aLastResult = None
    /\ aLastOp = "new"

\* the monotonic clock advances
AlertTick ==
    /\ instant < MaxInstant
    /\ instant' = instant + 1
    /\ aLastOp' = "tick"
    /\ UNCHANGED <<dedup_window, recent_alerts, emitted_at, aBefore, aLastKey,
                   aLastResult>>
    /\ UNCHANGED notAlertVars

\* create_leak_event / create_spike_event: None when suppressed, otherwise
\* build the event, record_alert, Some(event)
CreateEvent ==
    /\ \E alert_type \in AlertTypes, ctx \in Contexts :
          /\ aLastKey' = Some(<<alert_type, ctx>>)
          /\ aBefore' = emitted_at[<<alert_type, ctx>>]
          /\ IF ShouldSuppress(recent_alerts, DedupKey(alert_type, ctx), instant)
             THEN /\ aLastResult' = None
                  /\ UNCHANGED <<recent_alerts, emitted_at>>
             ELSE /\ aLastResult' = Some([reason |-> alert_type,
                                          name |-> ctx.pod_name,
                                          namespace |-> ctx.namespace])
                  /\ recent_alerts' = RecordAlert(recent_alerts,
                                          DedupKey(alert_type, ctx), instant)
                  /\ emitted_at' =
                        [emitted_at EXCEPT ![<<alert_type, ctx>>] = instant]
    /\ aLastOp' = "create_event"
    /\ UNCHANGED <<instant, dedup_window>>
    /\ UNCHANGED notAlertVars

\* Alerter shared by several tasks: no create_*_event call in progress
RaceInit == creating = [t \in 1..MaxTasks |-> None]

\* create_leak_event / create_spike_event of one task, up to the return of
\* should_suppress (recent_alerts.read() is released there): None when
\* suppressed, otherwise the event is built next
CreateEventCheck ==
    /\ \E t \in 1..MaxTasks, alert_type \in AlertTypes, ctx \in Contexts :
          /\ creating[t] = None
          /\ IF ShouldSuppress(recent_alerts, DedupKey(alert_type, ctx), instant)
             THEN /\ aLastResult' = None
                  /\ aLastKey' = Some(<<alert_type, ctx>>)
                  /\ aBefore' = emitted_at[<<alert_type, ctx>>]
                  /\ aLastOp' = "suppressed"
                  /\ UNCHANGED creating
             ELSE /\ creating' = [creating EXCEPT ![t] = Some(<<alert_type, ctx>>)]
                  /\ aLastOp' = "not_suppressed"
                  /\ UNCHANGED <<aLastResult, aLastKey, aBefore>>
    /\ UNCHANGED <<instant, dedup_window, recent_alerts, emitted_at>>
    /\ UNCHANGED notRaceVars

\* the rest of the call: record_alert (recent_alerts.write()), Some(event)
CreateEventRecord ==
    /\ \E t \in 1..MaxTasks :
          /\ creating[t] # None
          /\ LET alert_type == Unwrap(creating[t])[1]
                 ctx == Unwrap(creating[t])[2]
             IN  /\ aLastKey' = creating[t]
                 /\ aBefore' = emitted_at[<<alert_type, ctx>>]
                 /\ aLastResult' = Some([reason |-> alert_type,
                                         name |-> ctx.pod_name,
                                         namespace |-> ctx.namespace])
                 /\ recent_alerts' = RecordAlert(recent_alerts,
                                         DedupKey(alert_type, ctx), instant)
                 /\ emitted_at' =
                       [emitted_at EXCEPT ![<<alert_type, ctx>>] = instant]
          /\ creating' = [creating EXCEPT ![t] = None]
    /\ aLastOp' = "event_returned"
    /\ UNCHANGED <<instant, dedup_window>>
    /\ UNCHANGED notRaceVars

\* cleanup_dedup_cache
CleanupDedupCache ==
    /\ recent_alerts' = Retain(recent_alerts, instant)
    /\ aLastOp' = "cleanup"
    /\ UNCHANGED <<instant, dedup_window, emitted_at, aBefore, aLastKey,
                   aLastResult>>
    /\ UNCHANGED notAlertVars

(***************************************************************************)
(* predictor/scheduler.rs: PredictionScheduler.  predict_container is cut  *)
(* at its lock acquisitions and at the send, so that add_metrics and       *)
(* remove_container of other tasks interleave with it.                     *)
(***************************************************************************)
ContainerIds == {"c1"}

\* FallbackPredictor::predict: model_version "fallback"
FallbackProfile == [model_version |-> "fallback"]

\* the profile computed by the loaded model
ModelProfile == [model_version |-> "v0.1.0"]

\* mutant: the interval is not looked at
ShouldPredict_Always(buf, t) == TRUE

\* ContainerBuffer::should_predict
ShouldPredict(buf, t) ==
    \/ buf.last_prediction = None
    \/ t - Unwrap(buf.last_prediction) >= prediction_interval

\* mutant: the sample count is not looked at
Insufficient_Never(n) == FALSE

\* predict_container: metrics_snapshot.len() < self.config.min_samples
Insufficient(n) == n < min_samples

\* FeatureExtractor::extract returns None below MIN_SAMPLES
ExtractFails(n) == n < MinSamplesScaled

\* OnnxPredictor::predict: the fallback profile without a model, otherwise
\* the model's output or an error
Inference(loaded, fails) ==
    IF ~loaded THEN [ok |-> TRUE, profile |-> FallbackProfile]
    ELSE IF fails THEN [ok |-> FALSE, profile |-> FallbackProfile]
    ELSE [ok |-> TRUE, profile |-> ModelProfile]

\* tokio::time::timeout(d, fut) polls fut first and yields Err(Elapsed) only
\* if fut is still pending when the deadline has passed
TimedOut(pending, over) == pending /\ over

\* predict_container: (profile, skipped_reason) from the timed inference;
\* async { predictor.predict(..) } has no await, so it is never pending
ProfileOf(loaded, fails, over) ==
    IF TimedOut(FALSE, over)
    THEN [profile |-> Some(FallbackProfile), reason |-> Some("Inference timeout")]
    ELSE IF Inference(loaded, fails).ok
         THEN [profile |-> Some(Inference(loaded, fails).profile),
               reason |-> None]
         ELSE [profile |-> Some(FallbackProfile),
               reason |-> Some("Fallback used")]

\* PredictionScheduler::new
SchedulerInit(intervals, minima, loaded) ==
    /\ sched_now = 0
    /\ buffers = <<>>
    /\ prediction_interval \in intervals
    /\ min_samples \in minima
    /\ model_loaded \in loaded
    /\ todo = <<>>
    /\ task = [pc |-> "idle", cid |-> "c1", samples |-> 0, profile |-> None,
               reason |-> None, prev_at |-> -1, prev_removed |-> FALSE,
               fails |-> FALSE, over |-> FALSE]
    /\ sent = None
    /\ predicted_at = [c \in ContainerIds |-> -1]
    /\ dropped = [c \in ContainerIds |-> FALSE]
    /\ removed_since = [c \in ContainerIds |-> FALSE]
    /\ schLastOp = "new"

\* the monotonic clock advances
SchedTick ==
    /\ sched_now < MaxSchedTime
    /\ sched_now' = sched_now + 1
    /\ schLastOp' = "tick"
    /\ UNCHANGED <<buffers, prediction_interval, min_samples, model_loaded,
                   todo, task, sent, predicted_at, dropped, removed_since>>
    /\ UNCHANGED notSchedVars

\* add_metrics: entry(container_id).or_insert_with(ContainerBuffer::new),
\* then push
AddMetrics ==
    /\ \E c \in ContainerIds :
          LET old == IF c \in DOMAIN buffers THEN buffers[c]
                     ELSE [samples |-> 0, last_prediction |-> None,
                           last_profile |-> None]
          IN /\ old.samples < MaxSamples
             /\ buffers' = [k \in DOMAIN buffers \cup {c} |->
                               IF k = c
                               THEN [old EXCEPT !.samples = old.samples + 1]
                               ELSE buffers[k]]
             /\ dropped' = [dropped EXCEPT ![c] = FALSE]
    /\ schLastOp' = "add_metrics"
    /\ UNCHANGED <<sched_now, prediction_interval, min_samples, model_loaded,
                   todo, task, sent, predicted_at, removed_since>>
    /\ UNCHANGED notSchedVars

\* remove_container: buffers.remove(container_id)
RemoveContainer ==
    /\ \E c \in ContainerIds :
          /\ buffers' = [k \in DOMAIN buffers \ {c} |-> buffers[k]]
          /\ dropped' = [dropped EXCEPT ![c] = TRUE]
          /\ removed_since' = [removed_since EXCEPT ![c] = TRUE]
    /\ schLastOp' = "remove_container"
    /\ UNCHANGED <<sched_now, prediction_interval, min_samples, model_loaded,
                   todo, task, sent, predicted_at>>
    /\ UNCHANGED notSchedVars

\* run, ticker branch -> run_predictions: collect the keys, in the map's
\* arbitrary order
RunPredictions ==
    /\ task.pc = "idle"
    /\ todo = <<>>
    /\ DOMAIN buffers # {}
    /\ \E order \in [1..Cardinality(DOMAIN buffers) -> DOMAIN buffers] :
          /\ \A i, j \in DOMAIN order : i # j => order[i] # order[j]
          /\ todo' = order
    /\ schLastOp' = "run_predictions"
    /\ UNCHANGED <<sched_now, buffers, prediction_interval, min_samples,
                   model_loaded, task, sent, predicted_at, dropped,
                   removed_since>>
    /\ UNCHANGED notSchedVars

\* predict_container, first part: the snapshot under the read lock and the
\* decisions taken from it
PredictBegin ==
    /\ task.pc = "idle"
    /\ todo # <<>>
    /\ todo' = Tail(todo)
    /\ LET c == Head(todo)
           n == buffers[c].samples
           t == [task EXCEPT !.cid = c, !.samples = n, !.profile = None,
                             !.reason = None, !.prev_at = predicted_at[c],
                             !.prev_removed = removed_since[c],
                             !.fails = FALSE, !.over = FALSE]
       IN IF c \notin DOMAIN buffers
          THEN /\ schLastOp' = "untracked"
               /\ UNCHANGED task
          ELSE IF ~ShouldPredict(buffers[c], sched_now)
          THEN /\ schLastOp' = "skip"
               /\ UNCHANGED task
          ELSE IF Insufficient(n)
          THEN /\ schLastOp' = "insufficient"
               /\ task' = [t EXCEPT !.pc = "send",
                                    !.reason = Some("Insufficient data")]
          ELSE IF ExtractFails(n)
          THEN /\ schLastOp' = "extract_failed"
               /\ task' = [t EXCEPT !.pc = "send",
                                    !.reason = Some("Feature extraction failed")]
          ELSE /\ schLastOp' = "features"
               /\ task' = [t EXCEPT !.pc = "infer"]
    /\ UNCHANGED <<sched_now, buffers, prediction_interval, min_samples,
                   model_loaded, sent, predicted_at, dropped, removed_since>>
    /\ UNCHANGED notSchedVars

\* predict_container, second part: the timed inference, then last_prediction
\* and last_profile are written if the container is still in the map
PredictUpdate ==
    /\ task.pc = "infer"
    /\ \E fails \in BOOLEAN, over \in BOOLEAN :
          LET r == ProfileOf(model_loaded, fails, over)
              c == task.cid
          IN /\ task' = [task EXCEPT !.pc = "send", !.profile = r.profile,
                                     !.reason = r.reason, !.fails = fails,
                                     !.over = over]
             /\ buffers' = [k \in DOMAIN buffers |->
                               IF k = c
                               THEN [buffers[k] EXCEPT
                                        !.last_prediction = Some(sched_now),
                                        !.last_profile = r.profile]
                               ELSE buffers[k]]
             /\ predicted_at' = [predicted_at EXCEPT ![c] = sched_now]
             /\ removed_since' =
                   [removed_since EXCEPT ![c] = c \notin DOMAIN buffers]
    /\ schLastOp' = "update"
    /\ UNCHANGED <<sched_now, prediction_interval, min_samples, model_loaded,
                   todo, sent, dropped>>
    /\ UNCHANGED notSchedVars

\* predict_container, last part: prediction_tx.send(result)
PredictSend ==
    /\ task.pc = "send"
    /\ sent' = Some([container_id |-> task.cid, profile |-> task.profile,
                     skipped_reason |-> task.reason])
    /\ task' = [task EXCEPT !.pc = "idle"]
    /\ schLastOp' = "send"
    /\ UNCHANGED <<sched_now, buffers, prediction_interval, min_samples,
                   model_loaded, todo, predicted_at, dropped, removed_since>>
    /\ UNCHANGED notSchedVars

(***************************************************************************)
(* predictor/output.rs: OutputFormatter::format with the default           *)
(* OutputConfig.  An f32 is NaN (None) or a multiple of 1/RawGrid, given   *)
(* by its numerator; memory is counted in KiB.                             *)
(***************************************************************************)
Max(a, b) == IF a >= b THEN a ELSE b

\* raw model outputs: NaN, values below 0, in [0, 1] and above 1
RawValues == {None} \cup {Some(k) : k \in -1..(RawGrid + 1)}

\* denormalize_cpu / denormalize_memory: (normalized.clamp(0.0, 1.0) * full)
\* as an unsigned integer; the cast truncates and sends NaN to 0
Denormalize(normalized, full) ==
    IF normalized = None THEN 0
    ELSE (Max(0, Min(Unwrap(normalized), RawGrid)) * full) \div RawGrid

\* apply_memory_buffer: memory + (memory as f64 * 0.20) as u64
ApplyMemoryBuffer(memory) == memory + (memory \div 5)

\* mutant: the limit is not raised to the request
FinalLimit_NotRaised(limit, request, floor) == Max(limit, floor)

\* format: limit.max(request).max(minimum)
FinalLimit(limit, request, floor) == Max(Max(limit, request), floor)

\* OutputFormatter::format
Format(raw) ==
    LET cpu_request == Denormalize(raw[1], MAX_CPU_MILLICORES)
        cpu_limit == Denormalize(raw[2], MAX_CPU_MILLICORES)
        mem_request == Denormalize(raw[3], MAX_MEMORY_KIB)
        mem_limit == Denormalize(raw[4], MAX_MEMORY_KIB)
    IN [cpu_request_millicores |-> Max(cpu_request, MIN_CPU_MILLICORES),
        cpu_limit_millicores |->
            FinalLimit(cpu_limit, cpu_request, MIN_CPU_MILLICORES),
        memory_request_kib |-> Max(mem_request, MIN_MEMORY_KIB),
        memory_limit_kib |->
            FinalLimit(ApplyMemoryBuffer(mem_limit), mem_request,
                       MIN_MEMORY_KIB),
        confidence |-> IF raw[5] = None THEN None
                       ELSE Some(Max(0, Min(Unwrap(raw[5]), RawGrid)))]

\* the raw outputs of one call
OutputInit(values) ==
    /\ raw_outputs \in [1..5 -> values]
    /\ profile = None

\* formatter.format(&raw_outputs, model_version)
FormatCall ==
    /\ profile = None
    /\ profile' = Some(Format(raw_outputs))
    /\ UNCHANGED raw_outputs
    /\ UNCHANGED notOutVars

(***************************************************************************)
(* health.rs and agent/src/api.rs: the health registry and the /healthz    *)
(* and /readyz handlers.  A ComponentHealth is kept as its status.         *)
(***************************************************************************)
RECURSIVE ComputeStatus_FirstDecides(_, _)
\* mutant: the first component that is not healthy decides
ComputeStatus_FirstDecides(statuses, has_degraded) ==
    IF statuses = <<>> THEN "healthy"
    ELSE IF Head(statuses) # "healthy" THEN Head(statuses)
    ELSE ComputeStatus_FirstDecides(Tail(statuses), has_degraded)

RECURSIVE ComputeStatus(_, _)
\* HealthResponse::compute_status: the loop over components.values(), in the
\* order the map yields them
ComputeStatus(statuses, has_degraded) ==
    IF statuses = <<>>
    THEN IF has_degraded THEN "degraded" ELSE "healthy"
    ELSE IF Head(statuses) = "unhealthy" THEN "unhealthy"
    ELSE ComputeStatus(Tail(statuses),
                       has_degraded \/ Head(statuses) = "degraded")

\* HealthRegistry::health, the map read in the given order of its keys
Health(order) ==
    [status |-> ComputeStatus([i \in DOMAIN order |-> components[order[i]]],
                              FALSE),
     components |-> components]

\* mutant: the component statuses are not looked at
Readiness_FlagOnly(flag, health) == [ready |-> flag, reason |-> None]

\* HealthRegistry::readiness
Readiness(flag, health) ==
    IF ~flag
    THEN [ready |-> FALSE, reason |-> Some("Agent not yet initialized")]
    ELSE IF health.status = "unhealthy"
    THEN [ready |-> FALSE, reason |-> Some("Critical component unhealthy")]
    ELSE [ready |-> TRUE, reason |-> None]

\* HealthRegistry::new
HealthInit ==
    /\ components = <<>>
    /\ ready = FALSE
    /\ response = None
    /\ hLastOp = "new"

\* register (healthy) / update / set_healthy / set_degraded / set_unhealthy:
\* components.insert(name, health)
Update ==
    /\ \E name \in {"collector", "predictor", "sync_client"},
          status \in {"healthy", "degraded", "unhealthy"} :
          components' = [k \in DOMAIN components \cup {name} |->
                            IF k = name THEN status ELSE components[k]]
    /\ hLastOp' = "update"
    /\ UNCHANGED <<ready, response>>
    /\ UNCHANGED notHealthVars

\* set_ready
SetReady ==
    /\ \E flag \in BOOLEAN : ready' = flag
    /\ hLastOp' = "set_ready"
    /\ UNCHANGED <<components, response>>
    /\ UNCHANGED notHealthVars

\* GET /healthz
Healthz ==
    /\ \E order \in [1..Cardinality(DOMAIN components) -> DOMAIN components] :
          /\ \A i, j \in DOMAIN order : i # j => order[i] # order[j]
          /\ response' =
                Some([code |-> IF Health(order).status = "unhealthy"
                               THEN 503 ELSE 200,
                      body |-> Health(order)])
    /\ hLastOp' = "healthz"
    /\ UNCHANGED <<components, ready>>
    /\ UNCHANGED notHealthVars

\* GET /readyz
Readyz ==
    /\ \E order \in [1..Cardinality(DOMAIN components) -> DOMAIN components] :
          /\ \A i, j \in DOMAIN order : i # j => order[i] # order[j]
          /\ response' =
                Some([code |-> IF Readiness(ready, Health(order)).ready
                               THEN 200 ELSE 503,
                      body |-> Readiness(ready, Health(order))])
    /\ hLastOp' = "readyz"
    /\ UNCHANGED <<components, ready>>
    /\ UNCHANGED notHealthVars

(***************************************************************************)
(* collector/loop.rs: the collection loop, split at its await points, and  *)
(* the run loops of the other long-running tasks.  The consumer of the     *)
(* metrics channel is the environment: it may receive, stall or go away.   *)
(***************************************************************************)
\* the wall times a tick's collect_all may take, around the two thresholds
Durations ==
    {0, ThresholdMs \div 2 - 1, ThresholdMs \div 2, ThresholdMs \div 2 + 1,
     ThresholdMs, ThresholdMs + 1}

\* rand_jitter(max_ms): 0 if max_ms = 0, otherwise now % max_ms
RandJitter(max_ms) == IF max_ms = 0 THEN {0} ELSE {0, max_ms - 1}

\* CollectionLoop::current_interval, for one value of the jitter
CurrentInterval(mode, jitter_ms) ==
    (IF mode THEN DegradedIntervalMs ELSE IntervalMs) + jitter_ms

\* tokio::time::interval(period) as called in run: an Interval that starts
\* now, so that its first tick completes immediately and the following ones
\* every period
Interval(period) == [period |-> period, first_tick_in |-> 0]

\* CollectionLoop::check_resource_pressure: the new degraded_mode
CheckResourcePressure(mode, collection_duration) ==
    IF collection_duration > ThresholdMs /\ ~mode THEN TRUE
    ELSE IF collection_duration < ThresholdMs \div 2 /\ mode THEN FALSE
    ELSE mode

\* CollectionLoop::new followed by the first lines of run, and the other
\* tasks at the top of their loops
CollectorInit(sizes) ==
    /\ degraded_mode = FALSE
    /\ ticker \in {Interval(CurrentInterval(FALSE, j)) : j \in RandJitter(JitterMs)}
    /\ loop_pc = "select"
    /\ containers_left = 0
    /\ metrics_chan = 0
    /\ rx_closed = FALSE
    /\ buffer_size \in sizes
    /\ elapsed = 0
    /\ shutdown_sent = FALSE
    /\ run_pc = [scheduler |-> "select", streaming |-> "select",
                 model_update |-> "sleep"]
    /\ colLastOp = "new"

\* run: select! takes the ticker branch (both branches may be ready; the
\* macro picks one of the ready ones at random); collect_all reads the list
LoopTick ==
    /\ loop_pc = "select"
    /\ \E n \in 0..MaxContainers : containers_left' = n
    /\ loop_pc' = "collect"
    /\ colLastOp' = "tick"
    /\ UNCHANGED <<degraded_mode, ticker, metrics_chan, rx_closed, buffer_size,
                   elapsed, shutdown_sent, run_pc>>
    /\ UNCHANGED notCollVars

\* collect_all: one iteration of the loop over the containers.  An Err of
\* collect_container is counted; an Ok sample goes to metrics_tx.send(..)
\* .await, which completes at once when the channel has room (or with an
\* error when the receiver is gone) and otherwise suspends the loop.
CollectContainer ==
    /\ loop_pc = "collect" /\ containers_left > 0
    /\ \E ok \in BOOLEAN :
          IF ~ok \/ rx_closed
          THEN /\ containers_left' = containers_left - 1
               /\ UNCHANGED <<metrics_chan, loop_pc>>
          ELSE IF metrics_chan < buffer_size
          THEN /\ metrics_chan' = metrics_chan + 1
               /\ containers_left' = containers_left - 1
               /\ UNCHANGED loop_pc
          ELSE /\ loop_pc' = "send"
               /\ UNCHANGED <<metrics_chan, containers_left>>
    /\ colLastOp' = "collect"
    /\ UNCHANGED <<degraded_mode, ticker, rx_closed, buffer_size, elapsed,
                   shutdown_sent, run_pc>>
    /\ UNCHANGED notCollVars

\* collect_all: the suspended send completes, with the sample queued once
\* the consumer has made room, or with an error once the receiver is gone
SendResume ==
    /\ loop_pc = "send"
    /\ metrics_chan < buffer_size \/ rx_closed
    /\ metrics_chan' = IF rx_closed THEN metrics_chan ELSE metrics_chan + 1
    /\ containers_left' = containers_left - 1
    /\ loop_pc' = "collect"
    /\ colLastOp' = "send"
    /\ UNCHANGED <<degraded_mode, ticker, rx_closed, buffer_size, elapsed,
                   shutdown_sent, run_pc>>
    /\ UNCHANGED notCollVars

\* run: the rest of the ticker branch, after collect_all has returned
TickEnd ==
    /\ loop_pc = "collect" /\ containers_left = 0
    /\ \E d \in Durations, j \in RandJitter(JitterMs) :
          /\ elapsed' = d
          /\ degraded_mode' = CheckResourcePressure(degraded_mode, d)
          /\ ticker' = Interval(CurrentInterval(
                           CheckResourcePressure(degraded_mode, d), j))
    /\ loop_pc' = "select"
    /\ colLastOp' = "tick_end"
    /\ UNCHANGED <<containers_left, metrics_chan, rx_closed, buffer_size,
                   shutdown_sent, run_pc>>
    /\ UNCHANGED notCollVars

\* run: select! takes the shutdown branch and the loop breaks
LoopShutdown ==
    /\ loop_pc = "select" /\ shutdown_sent
    /\ loop_pc' = "returned"
    /\ colLastOp' = "shutdown"
    /\ UNCHANGED <<degraded_mode, ticker, containers_left, metrics_chan,
                   rx_closed, buffer_size, elapsed, shutdown_sent, run_pc>>
    /\ UNCHANGED notCollVars

\* the consumer of the Receiver returned by CollectionLoop::new: recv, or
\* drop of the receiver
Consumer ==
    /\ ~rx_closed
    /\ \/ metrics_chan > 0 /\ metrics_chan' = metrics_chan - 1
                           /\ UNCHANGED rx_closed
       \/ rx_closed' = TRUE /\ UNCHANGED metrics_chan
    /\ colLastOp' = "consumer"
    /\ UNCHANGED <<degraded_mode, ticker, loop_pc, containers_left,
                   buffer_size, elapsed, shutdown_sent, run_pc>>
    /\ UNCHANGED notCollVars

\* the owner of the broadcast::Sender sends the shutdown signal
ShutdownSend ==
    /\ ~shutdown_sent
    /\ shutdown_sent' = TRUE
    /\ colLastOp' = "shutdown_send"
    /\ UNCHANGED <<degraded_mode, ticker, loop_pc, containers_left,
                   metrics_chan, rx_closed, buffer_size, elapsed, run_pc>>
    /\ UNCHANGED notCollVars

\* one step of a run loop other than the collector's
RunStep(worker, to) ==
    /\ run_pc' = [run_pc EXCEPT ![worker] = to]
    /\ UNCHANGED <<degraded_mode, ticker, loop_pc, containers_left,
                   metrics_chan, rx_closed, buffer_size, elapsed,
                   shutdown_sent, colLastOp>>
    /\ UNCHANGED notCollVars

\* PredictionScheduler::run: select! over ticker.tick() and shutdown.recv()
SchedulerRun ==
    \/ run_pc.scheduler = "select" /\ RunStep("scheduler", "run_predictions")
    \/ run_pc.scheduler = "run_predictions" /\ RunStep("scheduler", "select")
    \/ run_pc.scheduler = "select" /\ shutdown_sent
          /\ RunStep("scheduler", "returned")

\* StreamingWorker::run: select! over receiver.recv() and the batch-delay
\* sleep, each followed by send_batch when a batch is due; no other branch
\* and no break
StreamingWorkerRun ==
    \/ run_pc.streaming = "select" /\ RunStep("streaming", "send_batch")
    \/ run_pc.streaming = "send_batch" /\ RunStep("streaming", "select")

\* ModelUpdateWorker::run: sleep(poll_interval), then check_for_update when
\* in the update window; no select and no break
ModelUpdateWorkerRun ==
    \/ run_pc.model_update = "sleep" /\ RunStep("model_update", "check")
    \/ run_pc.model_update = "check" /\ RunStep("model_update", "sleep")

\* the steps of the collection loop and of its environment
CollectorSteps ==
    \/ LoopTick \/ CollectContainer \/ SendResume \/ TickEnd \/ LoopShutdown
    \/ Consumer \/ ShutdownSend

(***************************************************************************)
(* collector/discovery.rs and collector/cgroup_v2.rs: the registry, the    *)
(* directory scan and the watcher, on a cgroup v2 node.  A path component  *)
(* is the string prefix ++ body ++ suffix; a body is a sequence of         *)
(* characters, "a" a hexadecimal digit and "g" not one.  A ContainerInfo   *)
(* is kept without its cgroup_path.                                        *)
(***************************************************************************)
Bodies ==
    {<<>>,
     [i \in 1..IdLen |-> "a"],
     [i \in 1..(IdLen - 1) |-> "a"],
     [i \in 1..IdLen |-> IF i = IdLen THEN "g" ELSE "a"]}

Parts == [prefix : {"", "crio-"}, body : Bodies, suffix : {"", ".scope"}]

\* the file names given to the scan and the ids given to register: plain
\* names and names of the form crio-<body>.scope
LeafNames == {p \in Parts : (p.prefix = "crio-") <=> (p.suffix = ".scope")}

\* the paths of filesystem events: a directory, or an entry of a directory
CgroupPaths == {<<p>> : p \in Parts} \cup {<<p, q>> : p, q \in Parts}

\* the filesystem events: kind, path, and for a created path whether it
\* holds cpu.stat or memory.current
FsEvents ==
    ({"Create"} \X CgroupPaths \X BOOLEAN)
        \cup ({"Remove"} \X CgroupPaths \X {FALSE})
        \cup ({"Modify"} \X {<<p>> : p \in LeafNames} \X {FALSE})

\* id.len() == 64 && id.chars().all(|c| c.is_ascii_hexdigit())
IsHexId(id) ==
    /\ id.prefix = "" /\ id.suffix = ""
    /\ Len(id.body) = IdLen
    /\ \A i \in DOMAIN id.body : id.body[i] = "a"

\* part.strip_prefix("crio-"), then strip_suffix(".scope").unwrap_or(..)
StripCrio(part) ==
    IF part.prefix = "crio-"
    THEN Some([prefix |-> "", body |-> part.body, suffix |-> ""])
    ELSE None

RECURSIVE LastNonEmpty(_, _)
\* path_parts.iter().rev().find(|p| !p.is_empty())
LastNonEmpty(parts, i) ==
    IF i = 0 THEN None
    ELSE IF parts[i] # [prefix |-> "", body |-> <<>>, suffix |-> ""]
    THEN Some(parts[i])
    ELSE LastNonEmpty(parts, i - 1)

RECURSIVE ExtractContainerId(_, _)
\* CgroupV2Collector::extract_container_id: the loop over the components
\* from the last one (i = Len(parts)) to the first, then the fallback
ExtractContainerId(parts, i) ==
    IF i = 0 THEN LastNonEmpty(parts, Len(parts))
    ELSE IF StripCrio(parts[i]) # None /\ IsHexId(Unwrap(StripCrio(parts[i])))
    THEN StripCrio(parts[i])
    ELSE IF IsHexId(parts[i]) THEN Some(parts[i])
    ELSE ExtractContainerId(parts, i - 1)

\* the ContainerInfo built by the scan and by the watcher
NewInfo(id) ==
    [container_id |-> id, pod_name |-> "", namespace |-> "",
     deployment |-> None, node_name |-> ""]

\* CgroupV2Collector::scan_cgroup_dir: the ContainerInfo pushed for one
\* directory entry, from its file name
ScanEntry(name, has_cpu_stat) ==
    IF ExtractContainerId(<<name>>, 1) # None /\ has_cpu_stat
    THEN Some(NewInfo(Unwrap(ExtractContainerId(<<name>>, 1))))
    ELSE None

\* ContainerWatcher::try_extract_container_id
TryExtractContainerId(path) ==
    IF ExtractContainerId(path, Len(path)) = None THEN None
    ELSE IF IsHexId(Unwrap(ExtractContainerId(path, Len(path))))
    THEN ExtractContainerId(path, Len(path))
    ELSE None

\* ContainerWatcher::try_parse_container_path
TryParseContainerPath(path, has_cgroup_files) ==
    IF TryExtractContainerId(path) = None \/ ~has_cgroup_files THEN None
    ELSE Some(NewInfo(Unwrap(TryExtractContainerId(path))))

\* ContainerRegistry::new
DiscoveryInit ==
    /\ containers = <<>>
    /\ event_out = None
    /\ event_kind = "none"
    /\ leaf_id = None
    /\ meta_args = None
    /\ dLastOp = "new"

\* ContainerRegistry::register, given a ContainerInfo by the initial scan,
\* by the consumer of a Started event, or by any other caller
Register ==
    /\ \E from \in {"scan", "started", "direct"}, name \in LeafNames :
          LET given ==
                  IF from = "scan" THEN ScanEntry(name, TRUE)
                  ELSE IF from = "started"
                  THEN (IF event_out # None /\ Unwrap(event_out).kind = "Started"
                        THEN Some(Unwrap(event_out).info) ELSE None)
                  ELSE Some(NewInfo(name))
          IN /\ given # None
             /\ Cardinality(DOMAIN containers \cup {Unwrap(given).container_id})
                   <= MaxRegistered
             /\ containers' =
                   [k \in DOMAIN containers \cup {Unwrap(given).container_id} |->
                       IF k = Unwrap(given).container_id
                       THEN [Unwrap(given) EXCEPT !.node_name = "node"]
                       ELSE containers[k]]
             /\ dLastOp' = from
    /\ UNCHANGED <<event_out, event_kind, leaf_id, meta_args>>
    /\ UNCHANGED notDiscVars

\* ContainerRegistry::unregister
Unregister ==
    /\ \E id \in DOMAIN containers :
          containers' = [k \in DOMAIN containers \ {id} |-> containers[k]]
    /\ dLastOp' = "unregister"
    /\ UNCHANGED <<event_out, event_kind, leaf_id, meta_args>>
    /\ UNCHANGED notDiscVars

\* ContainerWatcher::process_event, for an event with one path
ProcessEvent ==
    /\ \E ev \in FsEvents :
          LET kind == ev[1]
              path == ev[2]
              has_cgroup_files == ev[3]
          IN
          /\ event_kind' = kind
          /\ leaf_id' = TryExtractContainerId(<<path[Len(path)]>>)
          /\ event_out' =
                IF kind = "Create"
                       /\ TryParseContainerPath(path, has_cgroup_files) # None
                THEN Some([kind |-> "Started",
                           info |-> Unwrap(TryParseContainerPath(
                                               path, has_cgroup_files))])
                ELSE IF kind = "Remove" /\ TryExtractContainerId(path) # None
                THEN Some([kind |-> "Stopped",
                           id |-> Unwrap(TryExtractContainerId(path))])
                ELSE None
    /\ dLastOp' = "event"
    /\ UNCHANGED <<containers, meta_args>>
    /\ UNCHANGED notDiscVars

\* ContainerRegistry::update_metadata(container_id, pod_name, namespace,
\* deployment)
UpdateMetadata ==
    /\ \E id \in LeafNames, pod_name \in {None, Some("pod-a")},
          namespace \in {None, Some("default")},
          deployment \in {None, Some("web")} :
          /\ meta_args' = Some([container_id |-> id, pod_name |-> pod_name,
                                namespace |-> namespace,
                                deployment |-> deployment])
          /\ containers' =
                IF id \in DOMAIN containers
                THEN [containers EXCEPT
                        ![id] = [@ EXCEPT
                           !.pod_name = IF pod_name # None
                                        THEN Unwrap(pod_name) ELSE @,
                           !.namespace = IF namespace # None
                                         THEN Unwrap(namespace) ELSE @,
                           !.deployment = IF deployment # None
                                          THEN deployment ELSE @]]
                ELSE containers
    /\ dLastOp' = "update_metadata"
    /\ UNCHANGED <<event_out, event_kind, leaf_id>>
    /\ UNCHANGED notDiscVars

(***************************************************************************)
(* anomaly/spike_detector.rs: RollingStats.  A sample is kept as its       *)
(* timestamp; mean and std_dev are not modelled.                           *)
(***************************************************************************)
RECURSIVE ExpireOldSamples(_, _)
\* RollingStats::expire_old_samples: pop from the front while the front is
\* older than the cutoff
ExpireOldSamples(deque, current_time) ==
    IF deque # <<>> /\ Head(deque) < current_time - window_secs
    THEN ExpireOldSamples(Tail(deque), current_time)
    ELSE deque

\* RollingStats::new
RollingInit(windows) ==
    /\ samples = <<>>
    /\ count = 0
    /\ window_secs \in windows

\* RollingStats::add_sample, with recalculate_stats
AddSample ==
    /\ Len(samples) < MaxRetained
    /\ \E timestamp \in 0..MaxStamp :
          /\ samples' = Append(ExpireOldSamples(samples, timestamp), timestamp)
          /\ count' = Len(ExpireOldSamples(samples, timestamp)) + 1
    /\ UNCHANGED window_secs
    /\ UNCHANGED notRollVars

(***************************************************************************)
(* sync/buffer.rs: persistence of a MetricsBuffer whose persistence_path   *)
(* is set.  A ContainerMetrics is its sample number; the samples of        *)
(* nan_ids carry cpu_usage_cores = NaN.  Sample 0 was written by an        *)
(* earlier run of the agent.                                               *)
(***************************************************************************)
\* save_to_disk: serde_json::to_vec of the metrics of the buffer (a float
\* that is not finite is written as null), renamed over the file
SaveToDisk(buf) ==
    Some([i \in DOMAIN buf |->
            [sample |-> buf[i].metrics,
             cpu_usage_cores |-> IF buf[i].metrics \in nan_ids
                                 THEN "null" ELSE "number"]])

\* with_persistence: load_from_disk when the file exists, the new buffer
\* left empty when from_slice fails (null is no f32); the metrics it holds
LoadFromDisk(file) ==
    IF file = None THEN <<>>
    ELSE IF \E i \in DOMAIN Unwrap(file) :
                Unwrap(file)[i].cpu_usage_cores = "null"
    THEN <<>>
    ELSE [i \in DOMAIN Unwrap(file) |-> Unwrap(file)[i].sample]

\* the file system before MetricsBuffer::with_config
PersistInit(files, nans) ==
    /\ buffer_file \in files
    /\ nan_ids \in nans
    /\ restored = None
    /\ afterFlush = FALSE

\* MetricsBuffer::flush; save_to_disk may fail, the file is then untouched
Flush ==
    /\ \E io_ok \in BOOLEAN :
          IF ~dirty
          THEN UNCHANGED <<buffer_file, dirty>> /\ lastOp' = "flush"
          ELSE IF io_ok
          THEN buffer_file' = SaveToDisk(buffer) /\ dirty' = FALSE
                  /\ lastOp' = "flush"
          ELSE UNCHANGED <<buffer_file, dirty>> /\ lastOp' = "flush_err"
    /\ lastArg' = 0
    /\ UNCHANGED <<now, buffer, max_size, max_retention, offline,
                   offline_entries, nextId, drainedEver, expiredEver, phase,
                   atOnline, synced>>
    /\ UNCHANGED <<nan_ids, restored, afterFlush>>
    /\ UNCHANGED <<modelVars, streamVars, midVars, collVars, discVars,
                   rollVars, tailVars>>

\* the buffer is dropped and MetricsBuffer::with_persistence(path) builds a
\* new one
Restart ==
    /\ restored' = Some(LoadFromDisk(buffer_file))
    /\ afterFlush' = (lastOp = "flush")
    /\ lastOp' = "with_persistence"
    /\ lastArg' = 0
    /\ UNCHANGED <<now, buffer, max_size, max_retention, dirty, offline,
                   offline_entries, nextId, drainedEver, expiredEver, phase,
                   atOnline, synced>>
    /\ UNCHANGED <<buffer_file, nan_ids>>
    /\ UNCHANGED <<modelVars, streamVars, midVars, collVars, discVars,
                   rollVars, tailVars>>

(***************************************************************************)
(* sync/client.rs: the order in which the calls of one shared SyncClient   *)
(* take its three tokio RwLocks.                                           *)
(***************************************************************************)
Tasks == 1..MaxTasks

ClientLocks == {"tls_state", "channel", "connection_state"}

\* the RwLocks of a ModelUpdateClient
VersionLocks == {"current_version", "previous_versions"}

\* lock.read().await / lock.write().await, and the drop of the guard
Acq(lock, mode) == [op |-> "acq", lock |-> lock, mode |-> mode]
Rel(lock, mode) == [op |-> "rel", lock |-> lock, mode |-> mode]

\* check_cert_rotation: tls_state.read() for the comparison
CheckCertRotationLocks == <<Acq("tls_state", "r"), Rel("tls_state", "r")>>

\* refresh_tls_if_needed: the check; when it answers true, tls_state.write()
\* and then channel.write(), both guards dropped at the end
RefreshTlsLocks(rotated) ==
    CheckCertRotationLocks \o
    (IF rotated
     THEN <<Acq("tls_state", "w"), Acq("channel", "w"),
            Rel("channel", "w"), Rel("tls_state", "w")>>
     ELSE <<>>)

\* create_channel: refresh_tls_if_needed, then tls_state.read() held until
\* the function returns, over connect().await
CreateChannelLocks ==
    RefreshTlsLocks(FALSE) \o <<Acq("tls_state", "r"), Rel("tls_state", "r")>>

\* get_channel: rotation check (and refresh), channel.read() for the reuse;
\* when a channel is created, channel.write() and then
\* connection_state.write(), both guards dropped at the end
GetChannelLocks(rotated, outcome) ==
    CheckCertRotationLocks \o
    (IF rotated THEN RefreshTlsLocks(TRUE) ELSE <<>>) \o
    <<Acq("channel", "r"), Rel("channel", "r")>> \o
    (CASE outcome = "reused" -> <<>>
       [] outcome = "failed" -> CreateChannelLocks
       [] outcome = "created" ->
            CreateChannelLocks \o
            <<Acq("channel", "w"), Acq("connection_state", "w"),
              Rel("connection_state", "w"), Rel("channel", "w")>>)

\* the ways through get_channel: a channel is reused only when no rotation
\* cleared it
GetChannelRuns ==
    { GetChannelLocks(rotated, outcome) :
        rotated \in BOOLEAN, outcome \in {"created", "failed"} }
    \cup { GetChannelLocks(FALSE, "reused") }

\* handle_connection_failure: connection_state.write(), then channel.write()
\* while the state guard is held
HandleConnectionFailureLocks ==
    <<Acq("connection_state", "w"), Acq("channel", "w"),
      Rel("channel", "w"), Rel("connection_state", "w")>>

\* register / get_model_update: get_channel, then handle_connection_failure
\* when get_channel or the call itself fails
CallLocks ==
    { GetChannelLocks(FALSE, "reused") \o h :
        h \in {<<>>, HandleConnectionFailureLocks} }
    \cup { GetChannelLocks(rotated, "created") \o h :
        rotated \in BOOLEAN, h \in {<<>>, HandleConnectionFailureLocks} }
    \cup { GetChannelLocks(rotated, "failed") \o HandleConnectionFailureLocks :
        rotated \in BOOLEAN }

\* force_reconnect: channel.write() in a block, connection_state.write() in
\* a block, then get_channel
ForceReconnectLocks ==
    { <<Acq("channel", "w"), Rel("channel", "w"),
        Acq("connection_state", "w"), Rel("connection_state", "w")>> \o g :
        g \in { GetChannelLocks(rotated, outcome) :
                  rotated \in BOOLEAN, outcome \in {"created", "failed"} } }

\* disconnect: channel.write(), then connection_state.write()
DisconnectLocks ==
    <<Acq("channel", "w"), Acq("connection_state", "w"),
      Rel("connection_state", "w"), Rel("channel", "w")>>

\* the lock programs of a public call
ProgramsOf(call) ==
    CASE call = "register" -> CallLocks
      [] call = "get_streaming_client" -> GetChannelRuns
      [] call = "force_reconnect" -> ForceReconnectLocks
      [] call = "disconnect" -> {DisconnectLocks}

\* tokio::sync::RwLock: a write needs the lock free, a read needs no writer
CanAcquire(t, lock, mode) ==
    /\ rwlocks[lock].writer = 0
    /\ mode = "w" => rwlocks[lock].readers = {}

Holds(t, lock) == rwlocks[lock].writer = t \/ t \in rwlocks[lock].readers

WaitsFor(t, lock) ==
    /\ lock_prog[t] # <<>>
    /\ Head(lock_prog[t]).op = "acq"
    /\ Head(lock_prog[t]).lock = lock
    /\ ~CanAcquire(t, lock, Head(lock_prog[t]).mode)

\* SyncClient::new, ModelUpdateClient::new: every lock free, no call in
\* progress
LocksInit ==
    /\ rwlocks = [l \in ClientLocks \cup VersionLocks |->
                     [writer |-> 0, readers |-> {}]]
    /\ lock_prog = [t \in Tasks |-> <<>>]
    /\ lock_op = [t \in Tasks |-> "idle"]

\* a task calls register / get_model_update, get_streaming_client,
\* force_reconnect or disconnect on the shared client
StartCall ==
    \E t \in Tasks,
       call \in {"register", "get_streaming_client", "force_reconnect",
                 "disconnect"} :
        /\ lock_prog[t] = <<>>
        /\ \E prog \in ProgramsOf(call) :
              lock_prog' = [lock_prog EXCEPT ![t] = prog]
        /\ lock_op' = [lock_op EXCEPT ![t] = call]
        /\ UNCHANGED rwlocks
        /\ UNCHANGED notLockVars

\* apply_update: current_version.write(); when there was a current version,
\* previous_versions.write() inside the if-let; current dropped at the end
\* of the block
ApplyUpdateLocks(had_current) ==
    <<Acq("current_version", "w")>> \o
    (IF had_current
     THEN <<Acq("previous_versions", "w"), Rel("previous_versions", "w")>>
     ELSE <<>>) \o
    <<Rel("current_version", "w")>>

\* rollback: previous_versions.write() held to the end of the function;
\* when the stack is not empty and the file exists, current_version.write()
RollbackLocks(restores) ==
    <<Acq("previous_versions", "w")>> \o
    (IF restores
     THEN <<Acq("current_version", "w"), Rel("current_version", "w")>>
     ELSE <<>>) \o
    <<Rel("previous_versions", "w")>>

\* load_existing_model: current_version.write()
LoadExistingModelLocks ==
    <<Acq("current_version", "w"), Rel("current_version", "w")>>

\* stats: current_version.read(), then previous_versions.read()
StatsLocks ==
    <<Acq("current_version", "r"), Acq("previous_versions", "r"),
      Rel("previous_versions", "r"), Rel("current_version", "r")>>

\* the lock programs of a call on a ModelUpdateClient
VersionProgramsOf(call) ==
    CASE call = "apply_update" -> { ApplyUpdateLocks(c) : c \in BOOLEAN }
      [] call = "rollback" -> { RollbackLocks(r) : r \in BOOLEAN }
      [] call = "load_existing_model" -> {LoadExistingModelLocks}
      [] call = "stats" -> {StatsLocks}

\* a task calls apply_update, rollback, load_existing_model or stats on the
\* shared ModelUpdateClient
StartVersionCall ==
    \E t \in Tasks,
       call \in {"apply_update", "rollback", "load_existing_model", "stats"} :
        /\ lock_prog[t] = <<>>
        /\ \E prog \in VersionProgramsOf(call) :
              lock_prog' = [lock_prog EXCEPT ![t] = prog]
        /\ lock_op' = [lock_op EXCEPT ![t] = call]
        /\ UNCHANGED rwlocks
        /\ UNCHANGED notLockVars

\* the next lock operation of a task: an acquisition waits until the lock
\* can be taken
LockStep ==
    \E t \in Tasks :
        /\ lock_prog[t] # <<>>
        /\ LET i == Head(lock_prog[t])
               l == rwlocks[i.lock]
           IN  /\ i.op = "acq" => CanAcquire(t, i.lock, i.mode)
               /\ rwlocks' =
                    [rwlocks EXCEPT ![i.lock] =
                       CASE i.op = "acq" /\ i.mode = "w" ->
                              [l EXCEPT !.writer = t]
                         [] i.op = "acq" /\ i.mode = "r" ->
                              [l EXCEPT !.readers = @ \cup {t}]
                         [] i.op = "rel" /\ i.mode = "w" ->
                              [l EXCEPT !.writer = 0]
                         [] i.op = "rel" /\ i.mode = "r" ->
                              [l EXCEPT !.readers = @ \ {t}]]
        /\ lock_prog' = [lock_prog EXCEPT ![t] = Tail(@)]
        /\ lock_op' = [lock_op EXCEPT
                         ![t] = IF Len(lock_prog[t]) = 1 THEN "idle" ELSE @]
        /\ UNCHANGED notLockVars

(***************************************************************************)
(* sync/buffer.rs: MetricsBuffer::push with its capacity loop unrolled one *)
(* iteration per step, on any configuration and any loaded buffer.         *)
(***************************************************************************)
\* the entries load_from_disk pushes, all stamped with the time of the load
LoadedBuffers ==
    { [i \in 1..n |-> [metrics |-> 0, buffered_at |-> 0]] : n \in 0..MaxLoaded }

\* with_config(config) followed by load_from_disk: any max_size, the buffer
\* as loaded (load_from_disk does not look at max_size)
LoadedBufferInit ==
    /\ now = 0
    /\ buffer \in LoadedBuffers
    /\ max_size \in 0..MaxCap
    /\ max_retention \in 1..MaxRet
    /\ dirty = FALSE
    /\ offline = FALSE
    /\ offline_entries = 0
    /\ nextId = 1
    /\ lastOp = "new"
    /\ lastArg = 0
    /\ drainedEver = FALSE
    /\ expiredEver = FALSE
    /\ phase = "fresh"
    /\ atOnline = <<>>
    /\ synced = <<>>

PushLoopInit == push_pc = "idle"

\* push(metrics) is called
PushEnter ==
    /\ push_pc = "idle"
    /\ nextId <= MaxPushes
    /\ push_pc' = "capacity"
    /\ UNCHANGED bufVars
    /\ UNCHANGED notPushVars

\* one iteration of while self.buffer.len() >= self.config.max_size
\* { self.buffer.pop_front(); }
PushPopFront ==
    /\ push_pc = "capacity"
    /\ Len(buffer) >= max_size
    /\ buffer' = PopFront(buffer)
    /\ UNCHANGED <<now, max_size, max_retention, dirty, offline,
                   offline_entries, nextId, lastOp, lastArg, drainedEver,
                   expiredEver, phase, atOnline, synced>>
    /\ UNCHANGED push_pc
    /\ UNCHANGED notPushVars

\* the loop condition is false: evict_expired, push_back, dirty = true
PushStore ==
    /\ push_pc = "capacity"
    /\ Len(buffer) < max_size
    /\ buffer' = Append(EvictExpired(buffer, now, max_retention),
                        [metrics |-> nextId, buffered_at |-> now])
    /\ dirty' = TRUE
    /\ nextId' = nextId + 1
    /\ expiredEver' = (expiredEver
                          \/ EvictExpired(buffer, now, max_retention) # buffer)
    /\ lastOp' = "push"
    /\ lastArg' = 0
    /\ phase' = "other"
    /\ push_pc' = "idle"
    /\ UNCHANGED <<now, max_size, max_retention, offline, offline_entries,
                   drainedEver, atOnline, synced>>
    /\ UNCHANGED notPushVars

\* the wall clock advances between two calls
PushLoopTick ==
    /\ push_pc = "idle"
    /\ Tick
    /\ UNCHANGED push_pc

(***************************************************************************)
(* The specifications: one subsystem runs, the others stay at rest.        *)
(***************************************************************************)
\* the subsystems of the first three specifications at rest
CoreIdle == BufferIdle /\ ModelIdle /\ StreamIdle

\* the other subsystems: the active one with every configuration, the rest
\* with one configuration and never stepping
OthersInit(active) ==
    /\ ClientInit(IF active = "client" THEN 1..MaxInitialBackoff ELSE {1},
                  IF active = "client"
                  THEN (MaxBackoffCap - 1)..MaxBackoffCap ELSE {MaxBackoffCap})
    /\ AlerterInit(IF active = "alerter" THEN 1..MaxWindow ELSE {1})
    /\ SchedulerInit(IF active = "scheduler" THEN 1..MaxInterval ELSE {1},
                     IF active = "scheduler"
                     THEN (MinSamplesScaled - 1)..MinSamplesScaled
                     ELSE {MinSamplesScaled},
                     IF active = "scheduler" THEN BOOLEAN ELSE {FALSE})
    /\ OutputInit(IF active = "output" THEN RawValues ELSE {Some(0)})
    /\ HealthInit
    /\ CollectorInit(IF active = "collector" THEN 1..MaxBufferSize ELSE {1})
    /\ DiscoveryInit
    /\ RollingInit(IF active = "rolling" THEN 1..MaxRollWindow ELSE {1})
    /\ WindowInit(IF active = "window" THEN 0..LastHour ELSE {2},
                  IF active = "window" THEN WindowHours ELSE {2},
                  IF active = "window" THEN WindowHours ELSE {4},
                  IF active = "window" THEN BOOLEAN ELSE {TRUE})
    /\ LocksInit
    /\ RaceInit
    /\ PushLoopInit
    /\ PersistInit(IF active = "persist"
                   THEN {None, Some(<<[sample |-> 0,
                                       cpu_usage_cores |-> "number"]>>)}
                   ELSE {None},
                   IF active = "persist" THEN SUBSET (1..MaxPushes) ELSE {{}})

\* the agent with one of the other subsystems active
AgentInit(active) == CoreIdle /\ OthersInit(active)

SpecClient ==
    AgentInit("client")
        /\ [][Call \/ GetStreamingClient \/ ForceReconnect \/ Disconnect
                  \/ RotateCert]_vars

SpecAlerter ==
    AgentInit("alerter")
        /\ [][AlertTick \/ CreateEvent \/ CleanupDedupCache]_vars

SpecScheduler ==
    AgentInit("scheduler")
        /\ [][SchedTick \/ AddMetrics \/ RemoveContainer \/ RunPredictions
                \/ PredictBegin \/ PredictUpdate \/ PredictSend]_vars

SpecOutput == AgentInit("output") /\ [][FormatCall]_vars

SpecHealth ==
    AgentInit("health") /\ [][Update \/ SetReady \/ Healthz \/ Readyz]_vars

SpecCollector == AgentInit("collector") /\ [][CollectorSteps]_vars

SpecDiscovery ==
    AgentInit("discovery") /\ [][Register \/ Unregister \/ ProcessEvent]_vars

SpecRolling == AgentInit("rolling") /\ [][AddSample]_vars

\* every long-running task together.  The runtime polls every task that can
\* make progress; a select! with several ready branches picks one of them
\* at random, so a shutdown branch that stays ready is taken eventually.
\* Nothing is assumed of the consumer of the metrics channel.
SpecShutdown ==
    /\ AgentInit("collector")
    /\ [][CollectorSteps \/ SchedulerRun \/ StreamingWorkerRun
            \/ ModelUpdateWorkerRun]_vars
    /\ WF_vars(LoopTick \/ CollectContainer \/ SendResume \/ TickEnd)
    /\ SF_vars(LoopShutdown)
    /\ WF_vars(SchedulerRun)
    /\ SF_vars(run_pc.scheduler = "select" /\ shutdown_sent
                  /\ RunStep("scheduler", "returned"))
    /\ WF_vars(StreamingWorkerRun)
    /\ WF_vars(ModelUpdateWorkerRun)

InitStream == StreamInit /\ BufferIdle /\ ModelIdle /\ OthersInit("none")

SpecStream == InitStream /\ [][StreamNext]_vars

InitModel == ModelInit /\ BufferIdle /\ StreamIdle /\ OthersInit("none")

SpecModel == InitModel /\ [][ModelNext]_vars

SpecWindow ==
    AgentInit("window")
        /\ [][NoUpdate \/ ApplyUpdate \/ WakeOutsideWindow \/ WakeNoClient
                  \/ HourPasses]_vars

SpecClientLocks == AgentInit("locks") /\ [][StartCall \/ LockStep]_vars

SpecVersionLocks ==
    AgentInit("locks") /\ [][StartVersionCall \/ LockStep]_vars

SpecAlerterRace ==
    AgentInit("alerter")
        /\ [][AlertTick \/ CreateEventCheck \/ CreateEventRecord]_vars

InitPushLoop ==
    LoadedBufferInit /\ ModelIdle /\ StreamIdle /\ OthersInit("none")

SpecPushLoop ==
    /\ InitPushLoop
    /\ [][PushEnter \/ PushPopFront \/ PushStore \/ PushLoopTick]_vars
    /\ WF_vars(PushPopFront)
    /\ WF_vars(PushStore)

SpecRegistry ==
    AgentInit("discovery")
        /\ [][Register \/ Unregister \/ UpdateMetadata]_vars

InitPersist == BufferInit /\ ModelIdle /\ StreamIdle /\ OthersInit("persist")

SpecPersist == InitPersist /\ [][Push \/ Drain \/ Flush \/ Restart]_vars

InitBuffer == BufferInit /\ ModelIdle /\ StreamIdle /\ OthersInit("none")

SpecBuffer == InitBuffer /\ [][BufferNext]_vars

(***************************************************************************)
(* Properties of the offline buffer (SpecBuffer).                          *)
(***************************************************************************)
PushOps == {"push", "push_batch", "buffer_if_offline", "buffer"}

\* number of samples pushed so far (sample i is the i-th pushed)
Pushed == nextId - 1

\* C1: immediately after every push the buffer holds at most max_size
\* entries, whatever pushes, drains and peeks came before.
C1_CapacityAfterPush ==
    lastOp \in PushOps => Len(buffer) <= max_size

\* a push into a full buffer has just run
C1_Witness ==
    /\ lastOp = "push"
    /\ Len(buffer) = max_size
    /\ Pushed > max_size
    /\ ~drainedEver /\ ~expiredEver

\* C2: immediately after any push every retained entry e satisfies
\* now - e.buffered_at <= max_retention.
C2_RetentionAfterPush ==
    lastOp \in PushOps =>
        \A i \in 1..Len(buffer) : now - buffer[i].buffered_at <= max_retention

\* the second push found the first entry expired and evicted it
C2_Witness ==
    /\ lastOp = "push"
    /\ max_size = 2
    /\ Pushed = 2
    /\ expiredEver
    /\ Len(buffer) = 1

\* C3: FIFO eviction: after n > max_size pushes with no drain and no expiry
\* the buffer holds exactly the last max_size pushed samples in push order.
C3_FifoEviction ==
    (~drainedEver /\ ~expiredEver /\ Pushed > max_size) =>
        MetricsOf(buffer) = [i \in 1..max_size |-> Pushed - max_size + i]

C3_Witness ==
    /\ ~drainedEver /\ ~expiredEver
    /\ max_size = 2
    /\ Pushed = 3
    /\ lastOp \in PushOps

\* C4: offline replay: go_online discards nothing; every
\* drain_batch_for_sync(k) returns the first min(k, remaining) entries in
\* buffering order and removes exactly those; the returned batches,
\* concatenated, followed by what is still pending, are the sequence buffered
\* at go_online (so they equal it when pending_sync_count is 0).
C4_OfflineReplay ==
    /\ [](phase = "sync" => synced \o MetricsOf(buffer) = atOnline)
    /\ [][ /\ (lastOp' = "go_online" => buffer' = buffer)
           /\ (lastOp' = "drain_batch_for_sync" =>
                 LET k == IF lastArg' <= Len(buffer) THEN lastArg' ELSE Len(buffer)
                 IN  /\ buffer' = SubSeq(buffer, k + 1, Len(buffer))
                     /\ (phase = "sync" =>
                           synced' = synced \o
                               [i \in 1..k |-> buffer[i].metrics]) )
         ]_vars

\* the replay finished in at least two batches
C4_Witness ==
    /\ phase = "sync"
    /\ lastOp = "drain_batch_for_sync"
    /\ lastArg = 1
    /\ Len(synced) = 2
    /\ offline_entries = 2
    /\ buffer = <<>>

(***************************************************************************)
(* Properties of the model updater (SpecModel).                            *)
(***************************************************************************)
ApplyOps == {"apply_ok", "apply_err_size", "apply_err_checksum"}
RollbackOps == {"rollback_ok", "rollback_none", "rollback_err"}

\* C5: an apply_update whose bytes are longer than max_model_size or whose
\* SHA-256 differs from the declared checksum returns an error and leaves
\* the current version, the previous-versions stack and the model directory
\* unchanged.
C5_IntegrityFailure ==
    [][ mLastOp' \in ApplyOps =>
          LET resp == Unwrap(mLastResp')
          IN  ( \/ Len(resp.model_weights) > max_model_size
                \/ compute_checksum(resp.model_weights) # resp.checksum ) =>
                  /\ mLastOp' \in {"apply_err_size", "apply_err_checksum"}
                  /\ current_version' = current_version
                  /\ previous_versions' = previous_versions
                  /\ disk' = disk
      ]_vars

\* a checksum mismatch was rejected while a model and a rollback stack exist
C5_Witness ==
    /\ mLastOp = "apply_err_checksum"
    /\ current_version # None
    /\ previous_versions # <<>>

\* C6: after a successful apply_update of (V, B, C): the current version is
\* V, its recorded checksum is C = SHA-256(B), model_V.onnx holds exactly B,
\* and the version that was current before is the top of the rollback stack.
C6_ApplyPostcondition ==
    mLastOp = "apply_ok" =>
        LET resp == Unwrap(mLastResp)
        IN  /\ current_version # None
            /\ Unwrap(current_version).version = resp.new_version
            /\ Unwrap(current_version).checksum = resp.checksum
            /\ resp.checksum = compute_checksum(resp.model_weights)
            /\ disk[ModelPath(resp.new_version)] = Some(resp.model_weights)
            /\ (mBefore # None =>
                  /\ previous_versions # <<>>
                  /\ Head(previous_versions) = Unwrap(mBefore))

\* C7: a rollback() that follows successful updates makes current exactly
\* the (version, path, checksum) tuple that was current before the most
\* recent update, and that tuple's file is on disk with matching content.
C7_RollbackRestores ==
    [][ (mLastOp' \in RollbackOps /\ mBefore # None) =>
          /\ mLastOp' = "rollback_ok"
          /\ current_version' = mBefore
          /\ Exists(disk', Unwrap(mBefore).path)
          /\ compute_checksum(Unwrap(disk'[Unwrap(mBefore).path]))
                = Unwrap(mBefore).checksum
      ]_vars

\* C30: the previous-versions stack never holds more than versions_to_keep
\* entries; a successful update that demotes a current version puts it first,
\* keeps the entries that stay in their order, drops the ones at the end
\* that exceed versions_to_keep and deletes their model files; a successful
\* rollback takes the first entry off and leaves the order of the rest.
C30_PreviousVersionsStack ==
    /\ [](Len(previous_versions) <= versions_to_keep)
    /\ [][ /\ (mLastOp' = "apply_ok" /\ current_version # None =>
                /\ Len(previous_versions')
                      = Min(Len(previous_versions) + 1, versions_to_keep)
                /\ Head(previous_versions') = Unwrap(current_version)
                /\ \A i \in 2..Len(previous_versions') :
                      previous_versions'[i] = previous_versions[i - 1]
                /\ \A i \in 1..Len(previous_versions) :
                      i + 1 > Len(previous_versions') =>
                         ~Exists(disk', previous_versions[i].path))
           /\ (mLastOp' = "apply_ok" /\ current_version = None =>
                previous_versions' = previous_versions)
           /\ (mLastOp' = "rollback_ok" =>
                previous_versions' = Tail(previous_versions))
         ]_vars

\* an update demoted the current version into a full stack: the oldest
\* entry was popped and its file is gone
C30_Witness_Evicted ==
    /\ mLastOp = "apply_ok"
    /\ versions_to_keep = MaxKeep
    /\ Len(previous_versions) = versions_to_keep
    /\ Head(previous_versions) = Unwrap(mBefore)
    /\ Len(mEvicted) = 1
    /\ ~Exists(disk, mEvicted[1].path)

\* the outcomes of a wake-up that called GetModelUpdate
RequestOps == {"no_update", "apply_ok", "apply_err_size", "apply_err_checksum"}

\* C32: an update_model whose bytes fail to load returns an error and
\* leaves the model slot and the model version as they were, and the
\* prediction that follows is made by the model (or the fallback) that was
\* in the slot before the call.
C32_FailedUpdateKeepsSlot ==
    [][ /\ (mLastOp' = "update_model_err" =>
               UNCHANGED <<slot_model, slot_version>>)
        /\ (mLastOp = "update_model_err" /\ mLastOp' = "predict" =>
               predictedBy' = slot_model)
      ]_vars

\* a failed update_model that followed a successful one: the slot still
\* holds the model and the bumped version
C32_Witness_Kept ==
    /\ mLastOp = "update_model_err"
    /\ slot_model # None
    /\ slot_version = Some(1)

\* C37: the current model's file and the file of every version on the
\* rollback stack exist on disk and hold bytes whose checksum is the
\* recorded one, version strings repeating or not.
C37_FilesMatchChecksums ==
    \A v \in (IF current_version = None THEN {} ELSE {Unwrap(current_version)})
                \cup { previous_versions[i] : i \in DOMAIN previous_versions } :
        /\ Exists(disk, v.path)
        /\ compute_checksum(Unwrap(disk[v.path])) = v.checksum

\* C38: a rollback that returns None (empty stack) or an error (the file of
\* the version to restore is missing) leaves the current version, the
\* previous-versions stack and the files as they were.
C38_FailedRollbackChangesNothing ==
    [][ mLastOp' \in {"rollback_none", "rollback_err"} =>
          UNCHANGED <<current_version, previous_versions, disk>>
      ]_vars

\* the local hour lies in the configured update window
HourInWindow ==
    \/ /\ update_window_start <= update_window_end
       /\ update_window_start <= hour
       /\ hour < update_window_end
    \/ /\ update_window_start > update_window_end
       /\ (hour >= update_window_start \/ hour < update_window_end)

\* C31: a wake-up of the model-update worker calls GetModelUpdate only when
\* the local hour h is in the update window (start <= h < end when start <=
\* end, h >= start or h < end when the window spans midnight); a wake-up
\* outside the window performs no request and leaves the current version,
\* the previous versions, the files and the predictor's slot as they were.
C31_UpdateWindow ==
    /\ [](mLastOp \in RequestOps => HourInWindow)
    /\ [][ ~HourInWindow /\ hour' = hour =>
             /\ mLastOp' \notin RequestOps
             /\ UNCHANGED <<current_version, previous_versions, disk,
                            slot_model, slot_version>>
         ]_vars

\* the worker woke outside a window that spans midnight and skipped the
\* request, after an update had been applied inside the window
C31_Witness_Skipped ==
    /\ mLastOp = "not_in_window"
    /\ update_window_start > update_window_end
    /\ hour >= update_window_end
    /\ hour < update_window_start
    /\ current_version # None

\* C8: after apply_update returns Ok for version V the predictor's inference
\* slot holds the new model, so later predictions are produced by it.
C8_HotSwap ==
    mLastOp = "apply_ok" => slot_model = Some(Unwrap(mLastResp).model_weights)

(***************************************************************************)
(* Properties of the streaming worker (SpecStream).                        *)
(***************************************************************************)
FlushOps == {"recv_flush", "timeout_flush"}

\* C9: the worker sends the pending batch when, and only when, it holds at
\* least max_batch_size items or its oldest item has waited max_batch_delay;
\* no non-empty batch waits longer than max_batch_delay past the arrival of
\* its oldest item.
C9_FlushCondition ==
    /\ (sLastOp \in FlushOps =>
          (flush_total >= max_batch_size \/ flush_age >= max_batch_delay))
    /\ ((wpc = "select" /\ ~IsBatchEmpty(pending_batch)) =>
          /\ TotalItems(pending_batch) < max_batch_size
          /\ clock - oldest_at <= max_batch_delay)

\* C10: a flush makes at most max_retries send attempts, separated by
\* retry_delay; a successful attempt ends the flush and adds exactly 1 to
\* batches_sent; when every attempt failed the batch is discarded (not put
\* back into the pending batch or the channel) and failures grows by
\* exactly 1.
C10_BoundedRetries ==
    /\ [](attempts <= max_retries)
    /\ [][ /\ (wpc = "attempt" /\ sLastOp' = "send_ok" =>
                 /\ wpc' = "select"
                 /\ stats'.batches_sent = stats.batches_sent + 1
                 /\ stats'.failures = stats.failures)
           /\ (wpc = "attempt" /\ sLastOp' = "send_retry" =>
                 /\ attempts' < max_retries
                 /\ stats' = stats)
           /\ (wpc = "attempt" /\ sLastOp' = "send_failed" =>
                 /\ wpc' = "select"
                 /\ attempts' = max_retries
                 /\ stats'.failures = stats.failures + 1
                 /\ stats'.batches_sent = stats.batches_sent
                 /\ pending_batch' = pending_batch
                 /\ channel' = channel
                 /\ inflight' = EmptyData)
           /\ (wpc = "retry_sleep" /\ wpc' = "attempt" =>
                 clock - retry_from >= retry_delay)
         ]_vars

\* a flush was given up after max_retries = 2 failed attempts
C10_Witness ==
    /\ sLastOp = "send_failed"
    /\ max_retries = 2
    /\ attempts = 2
    /\ stats.failures = 1
    /\ stats.batches_sent = 0

(***************************************************************************)
(* Properties of the sync client (SpecClient).                             *)
(***************************************************************************)
\* C11: after k consecutive connection failures since construction or the
\* last successful connect, the retry counter is k and the reconnect backoff
\* is min(initial_backoff * 2^k, max_backoff); a successful connect resets
\* the counter to 0 and the backoff to initial_backoff.
C11_BackoffDoubling ==
    /\ reconnect_attempts = failed_since
    /\ current_backoff = Min(initial_backoff * 2^failed_since, max_backoff)

\* the last step was a get_channel call made by register, get_model_update
\* or get_streaming_client
GetChannelCalls ==
    {"call_ok", "call_failed", "connect_failed", "connected_call_ok",
     "connected_call_failed", "streaming_connected", "streaming"}

\* C29: with readable certificate files, a register, get_model_update or
\* get_streaming_client call that finds the client certificate's mtime later
\* than the recorded one does not reuse the held channel: the channel it
\* uses is connected during the call with the TLS identity loaded from the
\* file as it was at the call, and no older channel stays in the slot; a
\* call that finds the mtime not advanced and a channel held reuses it.
C29_CertRotation ==
    cLastOp \in GetChannelCalls /\ at_call.readable /\ at_call.tls_state # None =>
        IF at_call.file > Unwrap(at_call.tls_state).cert_modified_time
        THEN /\ got.via # "reused"
             /\ got.via = "created" =>
                   /\ Unwrap(got.channel).tls = at_call.file
                   /\ got.channel # at_call.channel
             /\ grpc_channel # None => Unwrap(grpc_channel).tls = at_call.file
        ELSE at_call.channel # None =>
                /\ got.via = "reused"
                /\ got.channel = at_call.channel

\* a call found a held channel and a rotated certificate and connected anew
C29_Witness_Rotated ==
    /\ cLastOp \in {"connected_call_ok", "streaming_connected"}
    /\ at_call.readable
    /\ at_call.channel # None
    /\ at_call.tls_state # None
    /\ at_call.file > Unwrap(at_call.tls_state).cert_modified_time
    /\ got.via = "created"
    /\ grpc_channel = got.channel

\* C36: in every reachable state of the client, is_connected() = true implies
\* that a channel is held.
C36_ConnectedHoldsChannel ==
    connected => grpc_channel # None

(***************************************************************************)
(* Properties of the alerter (SpecAlerter).                                *)
(***************************************************************************)
\* C12: create_leak_event / create_spike_event returns None if and only if
\* an event with the same (alert type, namespace, pod name) was emitted less
\* than dedup_window earlier; another alert type on the same pod, or the
\* same key after the window, is not suppressed.
C12_Deduplication ==
    aLastOp = "create_event" =>
        (aLastResult = None <=>
            (aBefore >= 0 /\ instant - aBefore < dedup_window))

\* an event is emitted again after its window has passed, while another
\* alert type of the same pod is still inside its own window
C12_Witness ==
    /\ aLastOp = "create_event"
    /\ aLastResult # None
    /\ aBefore >= 0
    /\ \E ty \in AlertTypes :
          LET k == <<ty, Unwrap(aLastKey)[2]>>
          IN /\ ty # Unwrap(aLastKey)[1]
             /\ emitted_at[k] >= 0
             /\ emitted_at[k] < instant
             /\ instant - emitted_at[k] < dedup_window

\* C35: with concurrent create_leak_event / create_spike_event calls on one
\* shared Alerter, a call returns an event for a key only if no event was
\* returned for that key less than dedup_window earlier: at most one event
\* per key within any dedup window.
C35_AtomicDeduplication ==
    aLastOp = "event_returned" =>
        (aBefore < 0 \/ instant - aBefore >= dedup_window)

(***************************************************************************)
(* Properties of the prediction scheduler (SpecScheduler).                 *)
(***************************************************************************)
\* C13 as stated: once a prediction attempt has produced a profile for a
\* container, no further PredictionResult is sent for it until at least
\* prediction_interval has elapsed since that prediction.
C13_NoResultWithinInterval ==
    schLastOp = "send" =>
        (task.prev_at = -1 \/ sched_now - task.prev_at >= prediction_interval)

\* C13 amended: the same, for a container that was not removed from the
\* scheduler since that prediction (remove_container drops last_prediction
\* with the ring, so a container that is removed and added again is due at
\* once).
C13_NoResultWithinIntervalWhileTracked ==
    (schLastOp = "send" /\ task.prev_at >= 0 /\ ~task.prev_removed) =>
        sched_now - task.prev_at >= prediction_interval

\* a second profile is sent for a container that stayed in the map, after
\* the interval
C13_Witness ==
    /\ schLastOp = "send"
    /\ task.prev_at >= 0
    /\ ~task.prev_removed
    /\ task.profile # None
    /\ prediction_interval = MaxInterval

\* C14: for a due container with fewer than min_samples samples,
\* predict_container sends a result with profile None and a skipped_reason
\* that says "Insufficient", and leaves last_prediction and last_profile
\* (the whole map) unchanged.
C14_InsufficientSamples ==
    /\ []((schLastOp = "send" /\ task.samples < min_samples) =>
            sent = Some([container_id |-> task.cid, profile |-> None,
                         skipped_reason |-> Some("Insufficient data")]))
    /\ [][(schLastOp' \in {"insufficient", "send"}
              /\ task'.samples < min_samples) => buffers' = buffers]_vars

\* an insufficient result was sent for a container that already has a
\* last_prediction
C14_Witness ==
    /\ schLastOp = "send"
    /\ task.samples < min_samples
    /\ task.cid \in DOMAIN buffers
    /\ buffers[task.cid].last_prediction # None

\* C15: after remove_container(c), and without a later add_metrics(c), the
\* scheduler sends no PredictionResult for c and holds no state for c,
\* however remove_container interleaves with a running predict_container.
C15_RemoveCancels ==
    /\ \A c \in ContainerIds : dropped[c] => c \notin DOMAIN buffers
    /\ schLastOp = "send" => ~dropped[task.cid]

\* C16: a prediction attempt on at least MIN_SAMPLES samples yields a
\* profile: the model's output if a model is loaded and inference succeeds
\* within inference_timeout, otherwise the fallback profile with
\* model_version "fallback".
C16_ProfileOrFallback ==
    schLastOp = "update" =>
        task.profile =
            Some(IF model_loaded /\ ~task.fails /\ ~task.over
                 THEN ModelProfile ELSE FallbackProfile)

(***************************************************************************)
(* Properties of the output formatter (SpecOutput).                        *)
(***************************************************************************)
\* C17: for every raw output vector, the profile has
\* 10 <= cpu_request <= cpu_limit (millicores) and
\* 64 MiB <= memory_request <= memory_limit.
C17_RequestsWithinLimits ==
    profile # None =>
        /\ 10 <= Unwrap(profile).cpu_request_millicores
        /\ Unwrap(profile).cpu_request_millicores
              <= Unwrap(profile).cpu_limit_millicores
        /\ 64 * 1024 <= Unwrap(profile).memory_request_kib
        /\ Unwrap(profile).memory_request_kib
              <= Unwrap(profile).memory_limit_kib

\* both raw requests are above their raw limits and out of range, and the
\* limits were raised to the requests
C17_Witness ==
    /\ profile # None
    /\ raw_outputs[1] = Some(RawGrid + 1)
    /\ raw_outputs[2] = Some(-1)
    /\ raw_outputs[3] = Some(RawGrid)
    /\ raw_outputs[4] = None
    /\ Unwrap(profile).cpu_limit_millicores = MAX_CPU_MILLICORES
    /\ Unwrap(profile).memory_limit_kib = MAX_MEMORY_KIB

\* C18: memory_limit >= 1.2 * raw_limit, raw_limit being the denormalized
\* (clamped) memory-limit output before the buffer, for every raw value in
\* [0, 1].
C18_MemoryBuffer ==
    (profile # None /\ raw_outputs[4] # None
        /\ Unwrap(raw_outputs[4]) \in 0..RawGrid) =>
        5 * Unwrap(profile).memory_limit_kib
            >= 6 * Denormalize(raw_outputs[4], MAX_MEMORY_KIB)

C20_Readiness ==
    hLastOp = "readyz" =>
        LET r == Unwrap(response)
        IN /\ r.body.ready <=>
                (ready /\ \A k \in DOMAIN components :
                              components[k] # "unhealthy")
           /\ r.code = IF r.body.ready THEN 200 ELSE 503

\* /readyz answered 503 with the flag set, because a component is unhealthy
C20_Witness ==
    /\ hLastOp = "readyz"
    /\ ready
    /\ Unwrap(response).code = 503
    /\ \E k \in DOMAIN components : components[k] = "unhealthy"

\* C21: once startup is complete (the flag is set), /readyz reports ready
\* whenever the collector and the predictor are registered and healthy,
\* whatever the status of the sync_client and buffer components.
C21_ReadyWhileCoreHealthy ==
    (/\ hLastOp = "readyz"
     /\ ready
     /\ \A k \in {"collector", "predictor"} :
           k \in DOMAIN components /\ components[k] = "healthy")
        => /\ Unwrap(response).body.ready
           /\ Unwrap(response).code = 200

(***************************************************************************)
(* Properties of the collection loop (SpecCollector, SpecShutdown).        *)
(***************************************************************************)
\* C22: the degraded mode is a two-state machine with hysteresis.  A tick
\* enters it only if its collection time exceeded the threshold, leaves it
\* only if it completed in less than half the threshold, and a tick with a
\* duration in between leaves the mode as it was; the time to the next tick
\* is degraded_interval plus jitter exactly when the mode is degraded (and
\* interval plus jitter otherwise).
C22_DegradedHysteresis ==
    /\ [](colLastOp = "tick_end" =>
            LET base == IF degraded_mode THEN DegradedIntervalMs
                        ELSE IntervalMs
            IN /\ ticker.first_tick_in >= base
               /\ ticker.first_tick_in <= base + JitterMs)
    /\ [][colLastOp' = "tick_end" =>
            /\ (~degraded_mode /\ degraded_mode') => elapsed' > ThresholdMs
            /\ (degraded_mode /\ ~degraded_mode')
                  => elapsed' < ThresholdMs \div 2
            /\ (elapsed' >= ThresholdMs \div 2 /\ elapsed' <= ThresholdMs)
                  => degraded_mode' = degraded_mode]_vars

\* C23: the collection loop never blocks on a full metrics channel: it is
\* never suspended in the send of a sample.
C23_NeverBlocksOnFullQueue == loop_pc # "send"

\* C24: once the shutdown broadcast is sent, every long-running task
\* eventually returns from its run loop.
C24_ShutdownReturnsAll ==
    shutdown_sent ~>
        (/\ loop_pc = "returned"
         /\ \A w \in DOMAIN run_pc : run_pc[w] = "returned")

(***************************************************************************)
(* Properties of discovery and the registry (SpecDiscovery).               *)
(***************************************************************************)
\* C25: every container held in the registry has a container_id of exactly
\* 64 hexadecimal characters, however it was registered.
C25_RegistryIdsAreHex ==
    \A id \in DOMAIN containers : IsHexId(containers[id].container_id)

\* C26: a remove event publishes Stopped(id) only when the leaf of the
\* removed path parses to the 64-hex id, and nothing for any other path.
C26_StoppedOnlyForContainerDir ==
    (dLastOp = "event" /\ event_kind = "Remove") =>
        event_out = IF leaf_id = None THEN None
                    ELSE Some([kind |-> "Stopped", id |-> Unwrap(leaf_id)])

\* C40: update_metadata changes, in the entry of its container_id, only the
\* fields passed as Some, and nothing for an unknown id; no other operation
\* changes the pod_name, namespace or deployment of a container that stays
\* registered, a repeated register of the same container_id included.
C40_MetadataOnlyByUpdate ==
    [][ /\ (dLastOp' = "update_metadata" =>
               LET a == Unwrap(meta_args')
               IN  /\ DOMAIN containers' = DOMAIN containers
                   /\ \A id \in DOMAIN containers :
                         LET old == containers[id]
                             new == containers'[id]
                         IN  IF id = a.container_id
                             THEN /\ new.container_id = old.container_id
                                  /\ new.node_name = old.node_name
                                  /\ new.pod_name =
                                        IF a.pod_name = None THEN old.pod_name
                                        ELSE Unwrap(a.pod_name)
                                  /\ new.namespace =
                                        IF a.namespace = None THEN old.namespace
                                        ELSE Unwrap(a.namespace)
                                  /\ new.deployment =
                                        IF a.deployment = None THEN old.deployment
                                        ELSE a.deployment
                             ELSE new = old)
        /\ (dLastOp' # "update_metadata" =>
               \A id \in DOMAIN containers \cap DOMAIN containers' :
                  /\ containers'[id].pod_name = containers[id].pod_name
                  /\ containers'[id].namespace = containers[id].namespace
                  /\ containers'[id].deployment = containers[id].deployment)
      ]_vars

(***************************************************************************)
(* Properties of RollingStats (SpecRolling).                               *)
(***************************************************************************)
\* C27: after any sequence of add_sample calls, with timestamps in any
\* order, the retained samples span at most the window (max timestamp -
\* min timestamp <= window) and count is the number of retained samples.
C27_RetainedWithinWindow ==
    /\ \A i, j \in DOMAIN samples : samples[i] - samples[j] <= window_secs
    /\ count = Len(samples)

(***************************************************************************)
(* Properties of buffer persistence (SpecPersist).                         *)
(***************************************************************************)
\* C28: persistence round trip: for any buffer contents, a flush followed
\* by dropping the buffer and building a new one from the same path yields
\* the same sequence of ContainerMetrics in the same order.
C28_PersistenceRoundTrip ==
    (lastOp = "with_persistence" /\ afterFlush) =>
        restored = Some(MetricsOf(buffer))

(***************************************************************************)
(* Properties of the SyncClient's locks (SpecClientLocks).                 *)
(***************************************************************************)
\* C33: in no reachable state of concurrent calls on one shared SyncClient
\* does a task hold the channel lock and wait for the connection-state lock
\* while another task holds the connection-state lock and waits for the
\* channel lock.
C33_NoLockOrderConflict ==
    \A a \in Tasks, b \in Tasks :
        ~ /\ a # b
          /\ Holds(a, "channel")
          /\ WaitsFor(a, "connection_state")
          /\ Holds(b, "connection_state")
          /\ WaitsFor(b, "channel")

(***************************************************************************)
(* Properties of the ModelUpdateClient's locks (SpecVersionLocks).         *)
(***************************************************************************)
\* C34: in no reachable state of concurrent apply_update, rollback,
\* load_existing_model and stats calls on one ModelUpdateClient does a task
\* hold the current_version lock and wait for the previous_versions lock
\* while another task holds previous_versions and waits for current_version.
C34_VersionLockOrder ==
    \A a \in Tasks, b \in Tasks :
        ~ /\ a # b
          /\ Holds(a, "current_version")
          /\ WaitsFor(a, "previous_versions")
          /\ Holds(b, "previous_versions")
          /\ WaitsFor(b, "current_version")

(***************************************************************************)
(* Properties of MetricsBuffer::push step by step (SpecPushLoop).          *)
(***************************************************************************)
\* C39: every call of push returns, and when it has returned the pushed
\* entry is the last element of the buffer, for every max_size >= 0 and
\* every loaded buffer.
C39_PushTerminates ==
    /\ (push_pc = "capacity") ~> (push_pc = "idle")
    /\ [](lastOp = "push" /\ push_pc = "idle" =>
            /\ buffer # <<>>
            /\ buffer[Len(buffer)].metrics = nextId - 1)

=============================================================================
